---- MODULE Spec2Model ----
(***************************************************************************)
(* Reference management and syntax derivation of the VAAPI H.264 and H.265 *)
(* encoders (libavcodec/vaapi_encode_h264.c, libavcodec/vaapi_encode_h265.c)*)
(*                                                                         *)
(* A picture is identified by its encode order (the model's stand-in for   *)
(* the FFHWBaseEncodePicture pointer).  C arrays are modelled as TLA+      *)
(* sequences: C index i is sequence index i + 1.                           *)
(***************************************************************************)
EXTENDS Integers, Sequences, FiniteSets, TLC

\* ---------------------------------------------------------------- bounds
\* Pictures issued by the scheduler in one run of Spec / SpecH265.
MaxPics == 4
\* Pictures issued in one run of SpecLong (beyond the frame_num wrap at 256).
MaxLongPics == 516
\* Largest DPB snapshot the scheduler hands over.
MaxDpb == 3
\* Largest number of references per list.
MaxRefs == 2
\* How far a picture's display order may run ahead of its encode order.
MaxReorder == 1
\* Largest configured max_b_depth.
MaxBDepth == 1
\* Pictures issued in one run of SpecWriter / SpecWriterH265.
MaxWriterPics == 4
\* Buffers written for one picture before the model stops calling writers.
MaxBuffers == 2
\* Bytes every unit or SEI message serializes to.
UnitBytes == 1
\* Largest au->data_bit_padding of a serialized fragment.
MaxPadding == 1
\* The level_idc values a user asks for or the autodetection answers.
Levels == {31, 62, 120, 255}
\* Largest capacity (in bits) a caller offers.
MaxCapacity == 64
\* The capacities (in bits) a caller offers: one bit short of two bytes, and
\* the largest.
Capacities == {2 * 8 * UnitBytes - 1, MaxCapacity}
\* A failing CBS call is the first, the second or the last of a writer.
MaxFailAt == 2
\* Pictures issued in one run of SpecAny.
MaxAnyPics == 3
\* Largest number of references per list a scheduler of SpecAny hands over.
MaxAnyRefs == 3
\* base_ctx->max_b_depth of SpecNal: B pictures below the deepest level exist.
MaxNalBDepth == 2

\* ------------------------------------------------------ program constants
\* sps->log2_max_frame_num_minus4 (H.264)
log2_max_frame_num_minus4 == 4
\* sps->log2_max_pic_order_cnt_lsb_minus4 (H.264, pic_order_cnt_type 0)
log2_max_pic_order_cnt_lsb_minus4 == 4
\* sps->log2_max_pic_order_cnt_lsb_minus4 (H.265)
h265_log2_max_pic_order_cnt_lsb_minus4 == 8
\* number of reference lists walked by the k loops
MAX_REFERENCE_LIST_NUM == 2
\* width of idr_pic_id (uint16_t)
IdrPicIdBits == 16
\* FF_ARRAY_ELEMS(vpic->ReferenceFrames)
H264_REFERENCE_FRAMES == 16
\* FF_ARRAY_ELEMS(vslice->RefPicList0)
H264_REF_PIC_LIST == 32
\* FF_ARRAY_ELEMS(vpic->reference_frames) (H.265)
H265_REFERENCE_FRAMES == 15
\* FF_ARRAY_ELEMS(vslice->ref_pic_list0) (H.265)
H265_REF_PIC_LIST == 15

\* return values (the model's names for 0 and the negative AVERROR codes)
OK == "OK"   \* the return value 0
ENOMEM == "ENOMEM"
ENOSPC == "ENOSPC"
EINVAL == "EINVAL"   \* also stands for the error of ff_cbs_write_fragment_data
AVERROR_EOF == "AVERROR_EOF"

\* avctx->level when the user asked for no level
AV_LEVEL_UNKNOWN == -99

\* NULL picture pointer
NoPic == -1
\* an indeterminate pointer value that is no picture's address
Garbage == -2

FF_HW_PICTURE_TYPE_IDR == "IDR"
FF_HW_PICTURE_TYPE_I == "I"
FF_HW_PICTURE_TYPE_P == "P"
FF_HW_PICTURE_TYPE_B == "B"

VARIABLES
    variant,      \* "h264" or "h265": which encoder the session runs
    max_b_depth,  \* base_ctx->max_b_depth
    p_to_gpb,     \* base_ctx->p_to_gpb (read by the H.265 encoder only)
    pics,         \* live FFHWBaseEncodePicture records, by picture id
    hpics,        \* pic->priv_data: the codec picture state, by picture id
    cur,          \* the picture being encoded (NoPic before the first)
    pc,           \* "init" (before init_sequence_params), "idle", "picture"
                  \* (picture params done), "slice", "failed", "aborted"
    sh,           \* priv->raw_slice.header (persists across pictures)
    vpic,         \* vaapi_pic->codec_picture_params
    vslice,       \* slice->codec_slice_params
    dflt,         \* def_l0, def_l1, n of the last vaapi_encode_h264_init_slice_params
    abort_at,     \* the av_assert0 that ended the run ("" while none has)
    options,      \* the user's sei option, rc_mode->hrd, va_rc_mode, CONFIG_VAAPI_1
    aud,          \* priv->aud (user option)
    sei,          \* priv->sei after configure: the set of enabled SEI_* bits
    aud_needed,   \* priv->aud_needed
    sei_needed,   \* priv->sei_needed: the set of SEI_* bits that are set
    sei_cbr_workaround_needed,  \* priv->sei_cbr_workaround_needed
    current_access_unit,        \* priv->current_access_unit: the pending units
    out,          \* the last writer call since the parameters were built:
                  \* operation, inputs, return value, output
    written,      \* the buffers written since the last init_picture_params
    avctx,        \* what init_sequence_params reads: level, tier, pixel format,
                  \* and what the level autodetection answers
    seq           \* the level fields init_sequence_params fills

\* the session's configuration, fixed after construction
config == <<variant, max_b_depth, p_to_gpb, options, aud, sei, avctx, seq>>
\* what the header writers read and write
needed == <<aud_needed, sei_needed, sei_cbr_workaround_needed>>
writer == <<current_access_unit, out, written>>

vars == <<config, pics, hpics, cur, pc, sh, vpic, vslice, dflt, abort_at, needed, writer>>

\* ---------------------------------------------------------------- helpers
Pow2(n) == 2 ^ n

Max2(a, b) == IF a >= b THEN a ELSE b

Range(s) == { s[i] : i \in 1..Len(s) }

\* x & ((1 << bits) - 1) for x >= 0
MaskBits(x, bits) == x % Pow2(bits)

\* all sequences without repetition over S of length at most k
Arrangements(S, k) ==
    UNION { { s \in [1..n -> S] : \A i, j \in 1..n : i # j => s[i] # s[j] }
            : n \in 0..k }

\* s with e inserted so that it becomes C index j (sequence index j + 1)
InsertAt(s, j, e) == SubSeq(s, 1, j) \o <<e>> \o SubSeq(s, j + 1, Len(s))

\* FFSWAP(s[a], s[b]) on C indices a, b
Swap(s, a, b) ==
    [ i \in 1..Len(s) |-> IF i = a + 1 THEN s[b + 1]
                          ELSE IF i = b + 1 THEN s[a + 1] ELSE s[i] ]

\* ------------------------------------------------------ scheduler's input
\* The side data of pic->input_image the encoders look at: A53 captions,
\* mastering display metadata ("none", "partial": has_primaries and
\* has_luminance not both set, "full") and content light level.
SideData(a53, mastering, light) ==
    [ a53 |-> a53, mastering |-> mastering, light |-> light ]

NoSideData == SideData(0, "none", 0)

InputImages ==
    { SideData(a, m, l) : a \in {0, 1}, m \in {"none", "partial", "full"}, l \in {0, 1} }

\* The external frame scheduler hands over one FFHWBaseEncodePicture per
\* encode request: type, orders, reference-ness, B-depth, the two reference
\* arrays (picture ids), the DPB snapshot (picture ids) and the predecessor.
Picture(type, display_order, encode_order, is_reference, b_depth, refs0, refs1, dpb, prev) ==
    [ type |-> type, display_order |-> display_order,
      encode_order |-> encode_order, is_reference |-> is_reference,
      b_depth |-> b_depth, refs |-> <<refs0, refs1>>, dpb |-> dpb,
      prev |-> prev, input_image |-> NoSideData ]

\* pic->nb_refs[k] (k is the C list index 0 or 1)
nb_refs(p, k) == Len(p.refs[k + 1])

\* pic->nb_dpb_pics
nb_dpb_pics(p) == Len(p.dpb)

\* encode order of the next picture to be issued
NextEncodeOrder == IF cur = NoPic THEN 0 ELSE pics[cur].encode_order + 1

\* display orders taken by the pictures still alive
UsedDisplayOrders == { pics[i].display_order : i \in DOMAIN pics }

\* display orders open to a non-IDR picture: after the last IDR, not taken,
\* at most MaxReorder ahead of the encode order
FreeDisplayOrders(eo) ==
    { d \in (hpics[cur].last_idr_frame + 1)..(eo + MaxReorder) :
        d \notin UsedDisplayOrders }

\* display orders open to an I or P picture: those after every live picture
ForwardDisplayOrders(eo) ==
    { d \in FreeDisplayOrders(eo) : \A u \in UsedDisplayOrders : u < d }

\* DPB snapshots open to a picture with the references refs: the pictures
\* of the predecessor's DPB it keeps (its references among them), in any
\* order; a reference picture adds itself and keeps no more than the
\* session's dpb_frames older pictures
DpbChoices(eo, is_reference, refs) ==
    LET old == IF cur = NoPic THEN {} ELSE Range(pics[cur].dpb)
        all == IF is_reference = 1 THEN old \cup {eo} ELSE old
    IN  { s \in Arrangements(all, MaxDpb) :
            /\ (is_reference = 1) => eo \in Range(s)
            /\ refs \subseteq Range(s)
            /\ (is_reference = 1) => Cardinality(Range(s) \ {eo}) <= 1 + max_b_depth }

\* reference arrays drawn from the candidates S: non-empty, no repetition
RefChoices(S) == Arrangements(S, MaxRefs) \ { <<>> }

\* An IDR picture: displayed where it is encoded, always a reference, and
\* the DPB holds nothing older.
SchedIDR(eo) ==
    IF \A i \in DOMAIN pics : pics[i].display_order < eo
    THEN { Picture(FF_HW_PICTURE_TYPE_IDR, eo, eo, 1, 0, <<>>, <<>>, <<eo>>, cur) }
    ELSE {}

\* A non-IDR intra picture: always a reference.
SchedI(eo) ==
    UNION { { Picture(FF_HW_PICTURE_TYPE_I, d, eo, 1, 0, <<>>, <<>>, dpb, cur) :
                dpb \in DpbChoices(eo, 1, {}) }
            : d \in ForwardDisplayOrders(eo) }

\* A P picture: always a reference, list 0 drawn from the predecessor's DPB.
SchedP(eo) ==
    UNION { { Picture(FF_HW_PICTURE_TYPE_P, d, eo, 1, 0, l0, <<>>, dpb, cur) :
                dpb \in DpbChoices(eo, 1, Range(l0)) }
            : d \in ForwardDisplayOrders(eo),
              l0 \in RefChoices(Range(pics[cur].dpb)) }

\* is_reference of a B picture at depth bd
BIsReference(bd) == IF bd < max_b_depth THEN 1 ELSE 0

\* the pictures of the predecessor's DPB displayed before (dir = -1) or
\* after (dir = 1) display order d
DpbSide(d, dir) ==
    { i \in Range(pics[cur].dpb) :
        IF dir < 0 THEN pics[i].display_order < d ELSE pics[i].display_order > d }

\* the list pairs open to a B picture displayed at d: list 0 drawn from the
\* DPB pictures displayed before it, list 1 from those displayed after it.
\* The H.265 encoder takes a B picture only with both lists in use; the
\* H.264 encoder also takes one that uses a single list.
BRefChoices(d) ==
    LET c0 == RefChoices(DpbSide(d, -1))
        c1 == RefChoices(DpbSide(d, 1))
    IN  { <<l0, l1>> : l0 \in c0, l1 \in c1 }
        \cup (IF variant = "h264"
              THEN { <<l0, <<>> >> : l0 \in c0 } \cup { << <<>>, l1>> : l1 \in c1 }
              ELSE {})

\* A B picture: a reference unless at the deepest B level.
SchedB(eo) ==
    UNION { UNION { { Picture(FF_HW_PICTURE_TYPE_B, d, eo, BIsReference(bd), bd,
                              l[1], l[2], dpb, cur) :
                        dpb \in DpbChoices(eo, BIsReference(bd),
                                           Range(l[1]) \cup Range(l[2])) }
                    : l \in BRefChoices(d) }
            : d \in FreeDisplayOrders(eo), bd \in 1..max_b_depth }

\* Every picture the scheduler may issue next.
SchedulerPictures ==
    LET eo == NextEncodeOrder
    IN  IF cur = NoPic THEN SchedIDR(eo)
        ELSE SchedIDR(eo) \cup SchedI(eo) \cup SchedP(eo) \cup SchedB(eo)

\* the pictures of S and those reached from them along refs[1][0]
RECURSIVE ForwardChain(_)
ForwardChain(S) ==
    LET T == S \cup { pics[i].refs[2][1] :
                        i \in { j \in S \cap DOMAIN pics : Len(pics[j].refs[2]) > 0 } }
    IN  IF T = S THEN S ELSE ForwardChain(T)

\* A picture whose encode was issued: its input image is no longer looked at.
Released(q) == [ q EXCEPT !.input_image = NoSideData ]

\* The pictures the scheduler keeps alive while p is encoded: p, its
\* predecessor, the predecessor's DPB and what these reach along refs[1][0].
LivePictures(p) ==
    {p.encode_order} \cup
    (IF p.prev = NoPic THEN {}
     ELSE ForwardChain({p.prev} \cup Range(pics[p.prev].dpb)))


\* ------------------------------------------------- H.264 picture parameters
\* C21 mutant: the POC type is chosen the wrong way round.
PicOrderCntTypeInverted == IF max_b_depth # 0 THEN 2 ELSE 0

\* priv->raw_sps.pic_order_cnt_type
pic_order_cnt_type == IF max_b_depth # 0 THEN 0 ELSE 2

\* priv->dpb_frames (gop_size > 1; with gop_size 1 every picture is IDR and
\* the value is never read)
dpb_frames == 1 + max_b_depth

\* C1 mutant: the counter advances after every picture.
H264NextFrameNumEveryPicture(hprev, prev) == hprev.frame_num + 1

\* C24 mutant: the counter does not advance.
H264NextFrameNumStuck(hprev, prev) == hprev.frame_num

\* hpic->frame_num of a non-IDR picture
H264NextFrameNum(hprev, prev) == hprev.frame_num + prev.is_reference

\* The VAAPIEncodeH264Picture of picture p (hpic), from p and its predecessor.
H264PictureState(p) ==
    LET idr  == p.type = FF_HW_PICTURE_TYPE_IDR
        last == IF idr THEN p.display_order ELSE hpics[p.prev].last_idr_frame
        poc  == p.display_order - last
    IN  [ frame_num      |-> IF idr THEN 0
                             ELSE H264NextFrameNum(hpics[p.prev], pics[p.prev]),
          last_idr_frame |-> last,
          idr_pic_id     |-> IF idr
                             THEN (IF p.prev = NoPic THEN 0
                                   ELSE (hpics[p.prev].idr_pic_id + 1) % Pow2(IdrPicIdBits))
                             ELSE hpics[p.prev].idr_pic_id,
          primary_pic_type |-> CASE p.type = FF_HW_PICTURE_TYPE_IDR -> 0
                                 [] p.type = FF_HW_PICTURE_TYPE_I   -> 0
                                 [] p.type = FF_HW_PICTURE_TYPE_P   -> 1
                                 [] OTHER                           -> 2,
          slice_type     |-> CASE p.type = FF_HW_PICTURE_TYPE_IDR -> 7
                               [] p.type = FF_HW_PICTURE_TYPE_I   -> 7
                               [] p.type = FF_HW_PICTURE_TYPE_P   -> 5
                               [] OTHER                           -> 6,
          pic_order_cnt  |-> IF pic_order_cnt_type = 2 THEN poc * 2 ELSE poc,
          dpb_delay      |-> p.display_order - p.encode_order + max_b_depth,
          cpb_delay      |-> p.encode_order - last ]

\* one VAPictureH264 entry
VAPictureH264(picture_id, frame_idx, flags, poc) ==
    [ picture_id |-> picture_id, frame_idx |-> frame_idx, flags |-> flags,
      TopFieldOrderCnt |-> poc, BottomFieldOrderCnt |-> poc ]

VAInvalidH264 == VAPictureH264("VA_INVALID_ID", 0, "VA_PICTURE_H264_INVALID", 0)

\* vpic->ReferenceFrames: the references of list 0 then list 1, then invalid
\* entries up to the array's size
H264ReferenceFrames(p) ==
    LET all == p.refs[1] \o p.refs[2]
    IN  [ j \in 1..H264_REFERENCE_FRAMES |->
            IF j <= Len(all)
            THEN VAPictureH264(all[j], hpics[all[j]].frame_num,
                               "VA_PICTURE_H264_SHORT_TERM_REFERENCE",
                               hpics[all[j]].pic_order_cnt)
            ELSE VAInvalidH264 ]

\* the frame_num fields of the backend picture parameter record
H264VpicFrameNum(hpic) == hpic.frame_num

\* VAEncPictureParameterBufferH264 filled for picture p with state hpic
H264PictureParams(p, hpic) ==
    [ CurrPic |-> VAPictureH264(p.encode_order, H264VpicFrameNum(hpic), 0,
                                hpic.pic_order_cnt),
      ReferenceFrames |-> H264ReferenceFrames(p),
      frame_num |-> H264VpicFrameNum(hpic),
      idr_pic_flag |-> IF p.type = FF_HW_PICTURE_TYPE_IDR THEN 1 ELSE 0,
      reference_pic_flag |-> p.is_reference ]

\* the av_assert0 of init_picture_params that p trips ("" when none)
H264PictureAssert(p) ==
    IF p.type = FF_HW_PICTURE_TYPE_IDR /\ p.display_order # p.encode_order
    THEN "h264:635 display_order == encode_order"
    ELSE IF p.type # FF_HW_PICTURE_TYPE_IDR /\ p.prev = NoPic
    THEN "h264:644 prev"
    ELSE IF \E k \in 1..MAX_REFERENCE_LIST_NUM : \E i \in 1..Len(p.refs[k]) :
               \/ p.refs[k][i] \notin DOMAIN pics
               \/ ~(pics[p.refs[k][i]].encode_order < p.encode_order)
    THEN "h264:738 ref && ref->encode_order < pic->encode_order"
    ELSE ""

\* the run ends in a fatal assertion
Abort(where) ==
    /\ pc' = "aborted"
    /\ abort_at' = where
    /\ UNCHANGED <<config, pics, hpics, cur, sh, vpic, vslice, dflt, needed, writer>>

\* no writer has been called
NoOutput ==
    [ op |-> "none", aud_due |-> 0, sei_due |-> {}, cbr_due |-> 0,
      capacity |-> 0, planned |-> 0, appended |-> 0, au |-> << >>,
      serialized |-> FALSE, data_size |-> 0, data_bit_padding |-> 0, err |-> OK,
      data |-> << >>, data_len |-> 0, type |-> "" ]

\* the SEI_* bits of the H.264 encoder
SEI_TIMING == "SEI_TIMING"
SEI_IDENTIFIER == "SEI_IDENTIFIER"
SEI_RECOVERY_POINT == "SEI_RECOVERY_POINT"
SEI_A53_CC == "SEI_A53_CC"

H264SeiBits == {SEI_TIMING, SEI_IDENTIFIER, SEI_RECOVERY_POINT, SEI_A53_CC}

\* priv->sei as vaapi_encode_h264_configure leaves it
H264ConfigureSei(opt_sei, hrd) ==
    IF hrd = 0 THEN opt_sei \ {SEI_TIMING} ELSE opt_sei

\* C15 mutant: the recovery point is scheduled on every intra picture.
H264SeiRecoveryPointIntra(p) ==
    IF SEI_RECOVERY_POINT \in sei
       /\ p.type \in {FF_HW_PICTURE_TYPE_I, FF_HW_PICTURE_TYPE_IDR}
    THEN {SEI_RECOVERY_POINT} ELSE {}

\* the recovery point bit of priv->sei_needed
H264SeiRecoveryPoint(p) ==
    IF SEI_RECOVERY_POINT \in sei /\ p.type = FF_HW_PICTURE_TYPE_I
    THEN {SEI_RECOVERY_POINT} ELSE {}

\* priv->sei_needed before the captions are looked at
H264SeiNeeded(p) ==
    (IF SEI_IDENTIFIER \in sei /\ p.encode_order = 0 THEN {SEI_IDENTIFIER} ELSE {})
    \cup (IF SEI_TIMING \in sei THEN {SEI_TIMING} ELSE {})
    \cup H264SeiRecoveryPoint(p)

\* C23 mutant: captions still pending from an earlier picture stay due.
SeiA53Carried(p) ==
    IF /\ SEI_A53_CC \in sei
       /\ (p.input_image.a53 = 1 \/ SEI_A53_CC \in sei_needed)
    THEN {SEI_A53_CC} ELSE {}

\* the captions bit: set when ff_alloc_a53_sei returned data
SeiA53Needed(p) ==
    IF SEI_A53_CC \in sei /\ p.input_image.a53 = 1 THEN {SEI_A53_CC} ELSE {}

\* the return values of ff_alloc_a53_sei: it allocates, and so can fail, only
\* when the input image carries captions
A53Results(p) ==
    IF SEI_A53_CC \in sei /\ p.input_image.a53 = 1 THEN {OK, ENOMEM} ELSE {OK}

\* priv->sei_cbr_workaround_needed after init_picture_params (builds without
\* CONFIG_VAAPI_1 only)
H264CbrWorkaround ==
    IF options.CONFIG_VAAPI_1 = 0 /\ options.va_rc_mode = "VA_RC_CBR"
    THEN 1 ELSE sei_cbr_workaround_needed

\* vaapi_encode_h264_init_picture_params for the picture p the scheduler issues
vaapi_encode_h264_init_picture_params(p) ==
    /\ variant = "h264"
    /\ pc \in {"idle", "slice"}
    /\ \E a53_err \in A53Results(p) :
       LET hpic == H264PictureState(p)
           live == LivePictures(p)
       IN  IF a53_err # OK
           THEN \* return err: the picture state and the flags are written
                /\ pics' = [ i \in live |-> IF i = p.encode_order THEN p ELSE Released(pics[i]) ]
                /\ hpics' = [ i \in live |-> IF i = p.encode_order THEN hpic ELSE hpics[i] ]
                /\ cur' = p.encode_order
                /\ aud_needed' = aud
                /\ sei_needed' = H264SeiNeeded(p)
                /\ sei_cbr_workaround_needed' = H264CbrWorkaround
                /\ written' = << >>
                /\ pc' = "failed"
                /\ out' = NoOutput
                /\ UNCHANGED <<config, sh, vpic, vslice, dflt, abort_at,
                               current_access_unit>>
           ELSE IF H264PictureAssert(p) # ""
           THEN Abort(H264PictureAssert(p))
           ELSE /\ pics' = [ i \in live |-> IF i = p.encode_order THEN p ELSE Released(pics[i]) ]
                /\ hpics' = [ i \in live |-> IF i = p.encode_order THEN hpic ELSE hpics[i] ]
                /\ cur' = p.encode_order
                /\ aud_needed' = aud
                /\ sei_needed' = H264SeiNeeded(p) \cup SeiA53Needed(p)
                /\ sei_cbr_workaround_needed' = H264CbrWorkaround
                /\ written' = << >>
                /\ vpic' = H264PictureParams(p, hpic)
                /\ pc' = "picture"
                /\ out' = NoOutput
                /\ UNCHANGED <<config, sh, vslice, dflt, abort_at,
                               current_access_unit>>


\* --------------------------------------------- H.264 default reference lists
\* C2 mutant: the walk stops at a smaller frame_num (ascending order).
RECURSIVE H264InsertPAscending(_, _, _)
H264InsertPAscending(rpl0, j, hn) ==
    IF j > 0
    THEN LET hc == hpics[rpl0[j]]
         IN  IF hc.frame_num = hn.frame_num THEN -1
             ELSE IF hc.frame_num < hn.frame_num THEN j
             ELSE H264InsertPAscending(rpl0, j - 1, hn)
    ELSE j

\* The insertion loop of a P picture's list 0: the C index j at which the
\* candidate hn is stored, walking down from j; -1 when the assertion on
\* equal frame_num fires.
RECURSIVE H264InsertP(_, _, _)
H264InsertP(rpl0, j, hn) ==
    IF j > 0
    THEN LET hc == hpics[rpl0[j]]
         IN  IF hc.frame_num = hn.frame_num THEN -1
             ELSE IF hc.frame_num > hn.frame_num THEN j
             ELSE H264InsertP(rpl0, j - 1, hn)
    ELSE j

\* C3 mutant: past pictures are kept in increasing POC order.
RECURSIVE H264InsertB0PastAscending(_, _, _, _)
H264InsertB0PastAscending(rpl0, j, hn, hp) ==
    IF j > 0
    THEN LET hc == hpics[rpl0[j]]
         IN  IF hc.pic_order_cnt = hp.pic_order_cnt THEN -1
             ELSE IF hc.pic_order_cnt < hp.pic_order_cnt
             THEN IF \/ hn.pic_order_cnt > hp.pic_order_cnt
                     \/ hn.pic_order_cnt > hc.pic_order_cnt
                  THEN j
                  ELSE H264InsertB0PastAscending(rpl0, j - 1, hn, hp)
             ELSE IF hn.pic_order_cnt > hc.pic_order_cnt
                  THEN j
                  ELSE H264InsertB0PastAscending(rpl0, j - 1, hn, hp)
    ELSE j

\* The insertion loop of a B picture's list 0 (hp is the current picture).
RECURSIVE H264InsertB0(_, _, _, _)
H264InsertB0(rpl0, j, hn, hp) ==
    IF j > 0
    THEN LET hc == hpics[rpl0[j]]
         IN  IF hc.pic_order_cnt = hp.pic_order_cnt THEN -1
             ELSE IF hc.pic_order_cnt < hp.pic_order_cnt
             THEN IF \/ hn.pic_order_cnt > hp.pic_order_cnt
                     \/ hn.pic_order_cnt < hc.pic_order_cnt
                  THEN j
                  ELSE H264InsertB0(rpl0, j - 1, hn, hp)
             ELSE IF hn.pic_order_cnt > hc.pic_order_cnt
                  THEN j
                  ELSE H264InsertB0(rpl0, j - 1, hn, hp)
    ELSE j

\* C4 mutant: a past candidate is not moved behind the future pictures.
RECURSIVE H264InsertB1NoPartition(_, _, _, _)
H264InsertB1NoPartition(rpl1, j, hn, hp) ==
    IF j > 0
    THEN LET hc == hpics[rpl1[j]]
         IN  IF hc.pic_order_cnt = hp.pic_order_cnt THEN -1
             ELSE IF hc.pic_order_cnt > hp.pic_order_cnt
             THEN IF hn.pic_order_cnt > hc.pic_order_cnt
                  THEN j
                  ELSE H264InsertB1NoPartition(rpl1, j - 1, hn, hp)
             ELSE IF hn.pic_order_cnt < hc.pic_order_cnt
                  THEN j
                  ELSE H264InsertB1NoPartition(rpl1, j - 1, hn, hp)
    ELSE j

\* The insertion loop of a B picture's list 1.
RECURSIVE H264InsertB1(_, _, _, _)
H264InsertB1(rpl1, j, hn, hp) ==
    IF j > 0
    THEN LET hc == hpics[rpl1[j]]
         IN  IF hc.pic_order_cnt = hp.pic_order_cnt THEN -1
             ELSE IF hc.pic_order_cnt > hp.pic_order_cnt
             THEN IF \/ hn.pic_order_cnt < hp.pic_order_cnt
                     \/ hn.pic_order_cnt > hc.pic_order_cnt
                  THEN j
                  ELSE H264InsertB1(rpl1, j - 1, hn, hp)
             ELSE IF hn.pic_order_cnt < hc.pic_order_cnt
                  THEN j
                  ELSE H264InsertB1(rpl1, j - 1, hn, hp)
    ELSE j

\* The loop over prev->dpb[i], from C index i on, with the n = i entries
\* stored so far in rpl0 and rpl1.  fail names the assertion that fired.
RECURSIVE H264DefaultLoop(_, _, _, _)
H264DefaultLoop(p, i, rpl0, rpl1) ==
    LET prev == pics[p.prev]
        hp   == hpics[p.encode_order]
    IN  IF i < nb_dpb_pics(prev)
        THEN LET id == prev.dpb[i + 1]
                 hn == hpics[id]
             IN  IF ~(hn.frame_num < hp.frame_num)
                 THEN [ fail |-> "h264:785 hn->frame_num < hp->frame_num",
                        rpl0 |-> rpl0, rpl1 |-> rpl1, n |-> i ]
                 ELSE IF p.type = FF_HW_PICTURE_TYPE_P
                 THEN LET j == H264InsertP(rpl0, i, hn)
                      IN  IF j < 0
                          THEN [ fail |-> "h264:790 hc->frame_num != hn->frame_num",
                                 rpl0 |-> rpl0, rpl1 |-> rpl1, n |-> i ]
                          ELSE H264DefaultLoop(p, i + 1, InsertAt(rpl0, j, id), rpl1)
                 ELSE IF p.type = FF_HW_PICTURE_TYPE_B
                 THEN LET j0 == H264InsertB0(rpl0, i, hn, hp)
                          j1 == H264InsertB1(rpl1, i, hn, hp)
                      IN  IF j0 < 0
                          THEN [ fail |-> "h264:800 hc->pic_order_cnt != hp->pic_order_cnt",
                                 rpl0 |-> rpl0, rpl1 |-> rpl1, n |-> i ]
                          ELSE IF j1 < 0
                          THEN [ fail |-> "h264:815 hc->pic_order_cnt != hp->pic_order_cnt",
                                 rpl0 |-> rpl0, rpl1 |-> rpl1, n |-> i ]
                          ELSE H264DefaultLoop(p, i + 1, InsertAt(rpl0, j0, id),
                                               InsertAt(rpl1, j1, id))
                 ELSE H264DefaultLoop(p, i + 1, rpl0, rpl1)
        ELSE [ fail |-> "", rpl0 |-> rpl0, rpl1 |-> rpl1, n |-> i ]

\* Slots of the caller's def_l0 / def_l1 the code touches: the n it stores,
\* the nb_refs it compares and, for a B picture, the two it may swap.
H264ListSlots0(p, n) == Max2(n, nb_refs(p, 0))

H264ListSlots1(p, n) ==
    IF p.type = FF_HW_PICTURE_TYPE_B THEN Max2(Max2(n, 2), nb_refs(p, 1)) ELSE 0

\* what an uninitialised pointer slot may hold
UninitVals == DOMAIN pics \cup {NoPic, Garbage}

\* the array after the loop: the n stored entries, then whatever the
\* caller's stack held (stack maps the sequence indices above n)
H264ListArray(rpl, n, slots, stack) ==
    [ i \in 1..slots |-> IF i <= n THEN rpl[i] ELSE stack[i] ]

\* C5 mutant: identical lists are left as they are.
H264DegenerateNoSwap(p, a0, a1, n) == a1

\* The degenerate-list correction of a B picture: list 1 after it.
H264Degenerate(p, a0, a1, n) ==
    IF /\ p.type = FF_HW_PICTURE_TYPE_B
       /\ \A i \in 1..n : a0[i] = a1[i]
    THEN Swap(a1, 0, 1)
    ELSE a1

\* vaapi_encode_h264_default_ref_pic_list: rpl0, rpl1 and *rpl_size for
\* picture p, given what the caller's arrays held beforehand.
vaapi_encode_h264_default_ref_pic_list(p, stack0, stack1) ==
    LET r  == H264DefaultLoop(p, 0, <<>>, <<>>)
        a0 == H264ListArray(r.rpl0, r.n, H264ListSlots0(p, r.n), stack0)
        a1 == H264ListArray(r.rpl1, r.n, H264ListSlots1(p, r.n), stack1)
    IN  [ rpl0 |-> a0, rpl1 |-> H264Degenerate(p, a0, a1, r.n), n |-> r.n ]


\* ----------------------------------------------- H.264 slice parameters
\* the slots of sh->mmco[] and sh->rplm_lX[] the model's pictures can reach
MmcoSlots == MaxDpb + 1
RplmSlots == Max2(MaxRefs, MaxAnyRefs) + 1

\* priv->raw_slice.header as allocated (zeroed)
H264ZeroSliceHeader ==
    [ nal_unit_type |-> 0, nal_ref_idc |-> 0, slice_type |-> 0,
      frame_num |-> 0, idr_pic_id |-> 0, pic_order_cnt_lsb |-> 0,
      adaptive_ref_pic_marking_mode_flag |-> 0,
      mmco |-> [ i \in 1..MmcoSlots |->
                   [ memory_management_control_operation |-> 0,
                     difference_of_pic_nums_minus1 |-> 0 ] ],
      ref_pic_list_modification_flag_l0 |-> 0,
      ref_pic_list_modification_flag_l1 |-> 0,
      rplm_l0 |-> [ i \in 1..RplmSlots |->
                      [ modification_of_pic_nums_idc |-> 0, abs_diff_pic_num_minus1 |-> 0 ] ],
      rplm_l1 |-> [ i \in 1..RplmSlots |->
                      [ modification_of_pic_nums_idc |-> 0, abs_diff_pic_num_minus1 |-> 0 ] ] ]

\* sh->frame_num
H264SliceFrameNum(hpic) == MaskBits(hpic.frame_num, 4 + log2_max_frame_num_minus4)

\* sh->pic_order_cnt_lsb (the SPS field stays 0 with pic_order_cnt_type 2)
H264SlicePocLsb(hpic) ==
    MaskBits(hpic.pic_order_cnt,
             4 + (IF pic_order_cnt_type = 0 THEN log2_max_pic_order_cnt_lsb_minus4 ELSE 0))

\* C11 mutant: the whole DPB of the previous picture is discarded.
H264DiscardListAll(p) == pics[p.prev].dpb

\* discard_list: what is in the DPB of the previous picture but not in the
\* DPB of this one, in the previous DPB's order
H264DiscardList(p) ==
    LET in_dpb(id) == id \notin Range(p.dpb)
    IN  SelectSeq(pics[p.prev].dpb, in_dpb)

\* whether the marking block runs for p
H264Marks(p) == p.is_reference # 0 /\ p.type # FF_HW_PICTURE_TYPE_IDR

\* the assertion the marking block trips ("" when none)
H264MarkingAssert(p) ==
    IF ~H264Marks(p) THEN ""
    ELSE LET discard == H264DiscardList(p)
             keep    == nb_dpb_pics(pics[p.prev]) - Len(discard)
         IN  IF ~(keep <= dpb_frames)
             THEN "h264:927 keep <= priv->dpb_frames"
             ELSE IF \E i \in 1..Len(discard) :
                        ~(hpics[discard[i]].frame_num < hpics[p.encode_order].frame_num)
             THEN "h264:935 old->frame_num < hpic->frame_num"
             ELSE ""

\* sh->mmco[] after the marking block (entries it does not store keep
\* what they held)
H264Mmco(p, old) ==
    LET discard == H264DiscardList(p)
        hpic    == hpics[p.encode_order]
    IN  IF ~H264Marks(p) \/ Len(discard) = 0 THEN old
        ELSE [ i \in 1..Len(old) |->
                 IF i <= Len(discard)
                 THEN [ memory_management_control_operation |-> 1,
                        difference_of_pic_nums_minus1 |->
                            hpic.frame_num - hpics[discard[i]].frame_num - 1 ]
                 ELSE IF i = Len(discard) + 1
                 THEN [ old[i] EXCEPT !.memory_management_control_operation = 0 ]
                 ELSE old[i] ]

\* sh->adaptive_ref_pic_marking_mode_flag after the marking block
H264MarkingFlag(p, old) ==
    IF ~H264Marks(p) THEN old
    ELSE IF Len(H264DiscardList(p)) = 0 THEN 0 ELSE 1

\* C6 mutant: only the first entry of the list is compared.
H264NeedRplmFirstOnly(refs, def, i, need) ==
    IF Len(refs) >= 1 /\ refs[1] # def[1] THEN 1 ELSE need

\* need_rplm: the loop comparing pic->refs[k][i] with def_lX[i]
RECURSIVE H264NeedRplm(_, _, _, _)
H264NeedRplm(refs, def, i, need) ==
    IF i <= Len(refs)
    THEN H264NeedRplm(refs, def, i + 1, IF refs[i] # def[i] THEN 1 ELSE need)
    ELSE need

\* C7 mutant: the predictor is not advanced to the reference just coded.
RECURSIVE H264RplmLoopFixedPredictor(_, _, _, _)
H264RplmLoopFixedPredictor(refs, i, pic_num, acc) ==
    IF i <= Len(refs)
    THEN LET href == hpics[refs[i]]
         IN  IF href.frame_num = pic_num
             THEN [ fail |-> TRUE, cmds |-> acc ]
             ELSE H264RplmLoopFixedPredictor(refs, i + 1, pic_num,
                    Append(acc,
                      IF href.frame_num < pic_num
                      THEN [ modification_of_pic_nums_idc |-> 0,
                             abs_diff_pic_num_minus1 |-> pic_num - href.frame_num - 1 ]
                      ELSE [ modification_of_pic_nums_idc |-> 1,
                             abs_diff_pic_num_minus1 |-> href.frame_num - pic_num - 1 ]))
    ELSE [ fail |-> FALSE, cmds |-> acc ]

\* C25 mutant: the difference is not asserted to be nonzero.
RECURSIVE H264RplmLoopUnchecked(_, _, _, _)
H264RplmLoopUnchecked(refs, i, pic_num, acc) ==
    IF i <= Len(refs)
    THEN LET href == hpics[refs[i]]
         IN  H264RplmLoopUnchecked(refs, i + 1, href.frame_num,
                    Append(acc,
                      IF href.frame_num < pic_num
                      THEN [ modification_of_pic_nums_idc |-> 0,
                             abs_diff_pic_num_minus1 |-> pic_num - href.frame_num - 1 ]
                      ELSE [ modification_of_pic_nums_idc |-> 1,
                             abs_diff_pic_num_minus1 |-> href.frame_num - pic_num - 1 ]))
    ELSE [ fail |-> FALSE, cmds |-> acc ]

\* The command loop over the references of one list: the commands stored,
\* with predictor pic_num; fail when href->frame_num == pic_num is met.
RECURSIVE H264RplmLoop(_, _, _, _)
H264RplmLoop(refs, i, pic_num, acc) ==
    IF i <= Len(refs)
    THEN LET href == hpics[refs[i]]
         IN  IF href.frame_num = pic_num
             THEN [ fail |-> TRUE, cmds |-> acc ]
             ELSE H264RplmLoop(refs, i + 1, href.frame_num,
                    Append(acc,
                      IF href.frame_num < pic_num
                      THEN [ modification_of_pic_nums_idc |-> 0,
                             abs_diff_pic_num_minus1 |-> pic_num - href.frame_num - 1 ]
                      ELSE [ modification_of_pic_nums_idc |-> 1,
                             abs_diff_pic_num_minus1 |-> href.frame_num - pic_num - 1 ]))
    ELSE [ fail |-> FALSE, cmds |-> acc ]

\* sh->rplm_lX[] after the commands and the end marker are stored
H264Rplm(refs, hpic, old) ==
    LET cmds == H264RplmLoop(refs, 1, hpic.frame_num, <<>>).cmds
    IN  [ i \in 1..Len(old) |->
            IF i <= Len(cmds) THEN cmds[i]
            ELSE IF i = Len(cmds) + 1
            THEN [ old[i] EXCEPT !.modification_of_pic_nums_idc = 3 ]
            ELSE old[i] ]

\* the assertion the list-modification block trips for p with default
\* lists d ("" when none)
H264ModificationAssert(p, d) ==
    LET hpic == hpics[p.encode_order]
        nul(k) == \E i \in 1..Len(p.refs[k]) : p.refs[k][i] \notin DOMAIN pics
    IN  IF p.type = FF_HW_PICTURE_TYPE_P
        THEN IF nul(1) THEN "h264:957 pic->refs[0][i]"
             ELSE IF /\ H264NeedRplm(p.refs[1], d.rpl0, 1, 0) = 1
                     /\ H264RplmLoop(p.refs[1], 1, hpic.frame_num, <<>>).fail
             THEN "h264:967 href->frame_num != pic_num"
             ELSE ""
        ELSE IF p.type = FF_HW_PICTURE_TYPE_B
        THEN IF nul(1) THEN "h264:986 pic->refs[0][i]"
             ELSE IF \E i \in 1..Len(p.refs[1]) :
                        ~(hpics[p.refs[1][i]].pic_order_cnt < hpic.pic_order_cnt)
             THEN "h264:988 href->pic_order_cnt < hpic->pic_order_cnt"
             ELSE IF nul(2) THEN "h264:995 pic->refs[1][i]"
             ELSE IF \E i \in 1..Len(p.refs[2]) :
                        ~(hpics[p.refs[2][i]].pic_order_cnt > hpic.pic_order_cnt)
             THEN "h264:997 href->pic_order_cnt > hpic->pic_order_cnt"
             ELSE IF /\ H264NeedRplm(p.refs[1], d.rpl0, 1, 0) = 1
                     /\ H264RplmLoop(p.refs[1], 1, hpic.frame_num, <<>>).fail
             THEN "h264:1008 href->frame_num != pic_num"
             ELSE IF /\ H264NeedRplm(p.refs[2], d.rpl1, 1, 0) = 1
                     /\ H264RplmLoop(p.refs[2], 1, hpic.frame_num, <<>>).fail
             THEN "h264:1030 href->frame_num != pic_num"
             ELSE ""
        ELSE ""

\* the assertion the backend list block trips ("" when none)
H264BackendAssert(p) ==
    IF /\ nb_refs(p, 0) # 0
       /\ p.type \notin {FF_HW_PICTURE_TYPE_P, FF_HW_PICTURE_TYPE_B}
    THEN "h264:1071 type == P || type == B"
    ELSE IF nb_refs(p, 1) # 0 /\ p.type # FF_HW_PICTURE_TYPE_B
    THEN "h264:1077 type == B"
    ELSE ""

\* the slice header after init_slice_params for p, from the header old it
\* overwrites and the default lists d
H264SliceHeader(p, d, old) ==
    LET hpic == hpics[p.encode_order]
        isP  == p.type = FF_HW_PICTURE_TYPE_P
        isB  == p.type = FF_HW_PICTURE_TYPE_B
        n0   == IF isP \/ isB THEN H264NeedRplm(p.refs[1], d.rpl0, 1, 0) ELSE 0
        n1   == IF isB THEN H264NeedRplm(p.refs[2], d.rpl1, 1, 0) ELSE 0
    IN  [ nal_unit_type |-> IF p.type = FF_HW_PICTURE_TYPE_IDR THEN 5 ELSE 1,
          nal_ref_idc   |-> IF p.type = FF_HW_PICTURE_TYPE_IDR THEN 3 ELSE p.is_reference,
          slice_type    |-> hpic.slice_type,
          frame_num     |-> H264SliceFrameNum(hpic),
          idr_pic_id    |-> hpic.idr_pic_id,
          pic_order_cnt_lsb |-> H264SlicePocLsb(hpic),
          adaptive_ref_pic_marking_mode_flag |->
              H264MarkingFlag(p, old.adaptive_ref_pic_marking_mode_flag),
          mmco |-> H264Mmco(p, old.mmco),
          ref_pic_list_modification_flag_l0 |->
              IF isP \/ isB THEN n0 ELSE old.ref_pic_list_modification_flag_l0,
          ref_pic_list_modification_flag_l1 |->
              IF isB THEN n1 ELSE old.ref_pic_list_modification_flag_l1,
          rplm_l0 |-> IF n0 = 1 THEN H264Rplm(p.refs[1], hpic, old.rplm_l0) ELSE old.rplm_l0,
          rplm_l1 |-> IF n1 = 1 THEN H264Rplm(p.refs[2], hpic, old.rplm_l1) ELSE old.rplm_l1 ]

\* vslice->RefPicList0 / RefPicList1: all invalid but the first entry
H264BackendList(first) ==
    [ i \in 1..H264_REF_PIC_LIST |-> IF i = 1 THEN first ELSE VAInvalidH264 ]

\* VAEncSliceParameterBufferH264 for p, from the header just built
H264SliceParams(p, header) ==
    [ slice_type |-> header.slice_type % 5,
      idr_pic_id |-> header.idr_pic_id,
      pic_order_cnt_lsb |-> header.pic_order_cnt_lsb,
      RefPicList0 |-> H264BackendList(IF nb_refs(p, 0) # 0
                                      THEN vpic.ReferenceFrames[1] ELSE VAInvalidH264),
      RefPicList1 |-> H264BackendList(IF nb_refs(p, 1) # 0
                                      THEN vpic.ReferenceFrames[2] ELSE VAInvalidH264) ]

\* def_l0, def_l1 and n when no default list is built
NoLists == [ rpl0 |-> <<>>, rpl1 |-> <<>>, n |-> 0 ]

\* every outcome of vaapi_encode_h264_default_ref_pic_list for p, over what
\* the uninitialised slots of def_l0 and def_l1 may hold
H264DefaultLists(p) ==
    IF p.type \notin {FF_HW_PICTURE_TYPE_P, FF_HW_PICTURE_TYPE_B}
    THEN {NoLists}
    ELSE LET n == nb_dpb_pics(pics[p.prev])
         IN  { vaapi_encode_h264_default_ref_pic_list(p, s0, s1) :
                 s0 \in [ (n + 1)..H264ListSlots0(p, n) -> UninitVals ],
                 s1 \in [ (n + 1)..H264ListSlots1(p, n) -> UninitVals ] }

\* the assertion of the default list construction p trips ("" when none)
H264DefaultAssert(p) ==
    IF p.type \notin {FF_HW_PICTURE_TYPE_P, FF_HW_PICTURE_TYPE_B} THEN ""
    ELSE H264DefaultLoop(p, 0, <<>>, <<>>).fail

\* vaapi_encode_h264_init_slice_params for a slice of the current picture
vaapi_encode_h264_init_slice_params ==
    /\ variant = "h264"
    /\ pc \in {"picture", "slice"}
    /\ LET p == pics[cur]
       IN  IF H264MarkingAssert(p) # "" THEN Abort(H264MarkingAssert(p))
           ELSE IF H264DefaultAssert(p) # "" THEN Abort(H264DefaultAssert(p))
           ELSE \E d \in H264DefaultLists(p) :
                  IF H264ModificationAssert(p, d) # ""
                  THEN Abort(H264ModificationAssert(p, d))
                  ELSE IF H264BackendAssert(p) # ""
                  THEN Abort(H264BackendAssert(p))
                  ELSE /\ dflt' = d
                       /\ sh' = H264SliceHeader(p, d, sh)
                       /\ vslice' = H264SliceParams(p, H264SliceHeader(p, d, sh))
                       /\ pc' = "slice"
                       /\ out' = NoOutput
                       /\ UNCHANGED <<config, pics, hpics, cur, vpic, abort_at, needed,
                                      current_access_unit, written>>

\* ------------------------------------------------------ sequence parameters
\* What init_sequence_params reads for the level: avctx->level, priv->tier,
\* whether the input pixel format's chroma format is supported, and the
\* answer of ff_h264_guess_level / ff_h265_guess_level.
Context(level, tier, chroma_supported, guess) ==
    [ level |-> level, tier |-> tier, chroma_supported |-> chroma_supported,
      guess |-> guess ]

\* a level descriptor the autodetection returns
LevelDescriptor(level_idc, constraint_set3_flag) ==
    [ found |-> TRUE, level_idc |-> level_idc,
      constraint_set3_flag |-> constraint_set3_flag ]

\* the autodetection returns NULL
NoLevel == [ found |-> FALSE, level_idc |-> 0, constraint_set3_flag |-> 0 ]

\* the level fields before init_sequence_params has run
NoSequenceParams ==
    [ done |-> FALSE, err |-> OK,
      sps_level_idc |-> 0, sps_constraint_set3_flag |-> 0, sps_general_tier_flag |-> 0,
      vps_general_level_idc |-> 0, vps_general_tier_flag |-> 0,
      vseq_level_idc |-> 0, vseq_general_tier_flag |-> 0 ]

\* C20 mutant: an explicit level is overridden by the autodetected one.
H264LevelIdcAutodetectOnly(a) ==
    IF a.guess.found THEN a.guess.level_idc ELSE 62

\* sps->level_idc
H264LevelIdc(a) ==
    IF a.level # AV_LEVEL_UNKNOWN THEN a.level
    ELSE IF a.guess.found THEN a.guess.level_idc
    ELSE 62

\* sps->constraint_set3_flag as the level selection leaves it (the profile
\* and GOP size part of the flag is left out: 0 before)
H264ConstraintSet3(a) ==
    IF a.level = AV_LEVEL_UNKNOWN /\ a.guess.found /\ a.guess.constraint_set3_flag # 0
    THEN 1 ELSE 0

\* the level fields vaapi_encode_h264_init_sequence_params fills
H264SequenceParams(a) ==
    IF ~a.chroma_supported THEN [ NoSequenceParams EXCEPT !.done = TRUE, !.err = EINVAL ]
    ELSE [ NoSequenceParams EXCEPT
             !.done = TRUE,
             !.sps_level_idc = H264LevelIdc(a),
             !.sps_constraint_set3_flag = H264ConstraintSet3(a),
             !.vseq_level_idc = H264LevelIdc(a) ]

\* ptl->general_level_idc
H265LevelIdc(a) ==
    IF a.level # AV_LEVEL_UNKNOWN THEN a.level
    ELSE IF a.guess.found THEN a.guess.level_idc
    ELSE 255

\* ptl->general_tier_flag
H265TierFlag(a) ==
    IF a.level = AV_LEVEL_UNKNOWN /\ ~a.guess.found THEN 1 ELSE a.tier

\* the level fields vaapi_encode_h265_init_sequence_params fills
H265SequenceParams(a) ==
    IF ~a.chroma_supported THEN [ NoSequenceParams EXCEPT !.done = TRUE, !.err = EINVAL ]
    ELSE [ NoSequenceParams EXCEPT
             !.done = TRUE,
             !.vps_general_level_idc = H265LevelIdc(a),
             !.vps_general_tier_flag = H265TierFlag(a),
             !.sps_level_idc = H265LevelIdc(a),
             !.sps_general_tier_flag = H265TierFlag(a),
             !.vseq_level_idc = H265LevelIdc(a),
             !.vseq_general_tier_flag = H265TierFlag(a) ]

SequenceParams(v, a) ==
    IF v = "h264" THEN H264SequenceParams(a) ELSE H265SequenceParams(a)

\* a session of the main tier with a supported pixel format, no level asked
\* for and none found
PlainContext == Context(AV_LEVEL_UNKNOWN, 0, TRUE, NoLevel)

\* ------------------------------------------------------ H.264 specifications
NoSliceParams == [ slice_type |-> 0 ]
NoPictureParams == [ frame_num |-> 0 ]

\* the user's options and the build: the sei option, rc_mode->hrd,
\* ctx->va_rc_mode and CONFIG_VAAPI_1
Options(opt_sei, hrd, va_rc_mode, vaapi_1) ==
    [ sei |-> opt_sei, hrd |-> hrd, va_rc_mode |-> va_rc_mode,
      CONFIG_VAAPI_1 |-> vaapi_1 ]

\* a session without delimiters or metadata and the header writers unused,
\* its level autodetected
InitPlain ==
    /\ options = Options({}, 0, "VA_RC_CQP", 1)
    /\ aud = 0
    /\ sei = {}
    /\ avctx = PlainContext
    /\ seq = SequenceParams(variant, PlainContext)

InitWriterState ==
    /\ aud_needed = 0
    /\ sei_needed = {}
    /\ sei_cbr_workaround_needed = 0
    /\ current_access_unit = << >>
    /\ out = NoOutput
    /\ written = << >>

InitCommon ==
    /\ InitWriterState
    /\ max_b_depth \in 0..MaxBDepth
    /\ pics = << >>
    /\ hpics = << >>
    /\ cur = NoPic
    /\ pc = "idle"
    /\ vpic = NoPictureParams
    /\ vslice = NoSliceParams
    /\ dflt = NoLists
    /\ abort_at = ""

Init ==
    /\ variant = "h264"
    /\ p_to_gpb = 0
    /\ InitPlain
    /\ sh = H264ZeroSliceHeader
    /\ InitCommon

Next ==
    \/ /\ NextEncodeOrder < MaxPics
       /\ \E p \in SchedulerPictures : vaapi_encode_h264_init_picture_params(p)
    \/ vaapi_encode_h264_init_slice_params

Spec == Init /\ [][Next]_vars


\* ------------------------------------------------------- long H.264 runs
\* The newest picture of the predecessor's DPB.
NewestInDpb ==
    CHOOSE i \in Range(pics[cur].dpb) :
        \A j \in Range(pics[cur].dpb) : pics[j].encode_order <= pics[i].encode_order

\* The scheduler of a long run, a fixed GOP pattern out of
\* SchedulerPictures: after the first IDR, P pictures that reference the
\* newest DPB picture and keep only it beside themselves; with
\* max_b_depth = 1 every P picture is displayed one picture ahead and
\* followed by the non-reference B picture it skipped.
LongSchedulerPictures ==
    LET eo == NextEncodeOrder IN
    IF cur = NoPic THEN SchedIDR(eo)
    ELSE IF max_b_depth = 1 /\ pics[cur].type = FF_HW_PICTURE_TYPE_P
    THEN { Picture(FF_HW_PICTURE_TYPE_B, eo - 1, eo, BIsReference(1), 1,
                   pics[cur].refs[1], <<cur>>, pics[cur].dpb, cur) }
    ELSE { Picture(FF_HW_PICTURE_TYPE_P, eo + max_b_depth, eo, 1, 0,
                   <<NewestInDpb>>, <<>>, <<eo, NewestInDpb>>, cur) }

InitLong ==
    /\ variant = "h264"
    /\ p_to_gpb = 0
    /\ InitPlain
    /\ sh = H264ZeroSliceHeader
    /\ InitCommon

NextLong ==
    \/ /\ NextEncodeOrder < MaxLongPics
       /\ \E p \in LongSchedulerPictures : vaapi_encode_h264_init_picture_params(p)
    \/ vaapi_encode_h264_init_slice_params

SpecLong == InitLong /\ [][NextLong]_vars


\* ------------------------------------------------- H.265 picture parameters
HEVC_NAL_TRAIL_N == "TRAIL_N"
HEVC_NAL_TRAIL_R == "TRAIL_R"
HEVC_NAL_RASL_N == "RASL_N"
HEVC_NAL_RASL_R == "RASL_R"
HEVC_NAL_IDR_W_RADL == "IDR_W_RADL"
HEVC_NAL_CRA_NUT == "CRA_NUT"
HEVC_SLICE_B == "HEVC_SLICE_B"
HEVC_SLICE_P == "HEVC_SLICE_P"
HEVC_SLICE_I == "HEVC_SLICE_I"

\* C30 mutant: the walk stops at an IDR picture as well.
RECURSIVE H265IrapRefAnyIntra(_)
H265IrapRefAnyIntra(q) ==
    IF q.type \in {FF_HW_PICTURE_TYPE_I, FF_HW_PICTURE_TYPE_IDR} THEN q.encode_order
    ELSE IF Len(q.refs[2]) = 0 THEN NoPic
    ELSE H265IrapRefAnyIntra(pics[q.refs[2][1]])

\* the walk for (irap_ref = pic; irap_ref; irap_ref = irap_ref->refs[1][0]):
\* the picture of type I it stops at, NoPic when it runs off the chain
RECURSIVE H265IrapRef(_)
H265IrapRef(q) ==
    IF q.type = FF_HW_PICTURE_TYPE_I THEN q.encode_order
    ELSE IF Len(q.refs[2]) = 0 THEN NoPic
    ELSE H265IrapRef(pics[q.refs[2][1]])

\* hpic->slice_nal_unit
H265SliceNalUnit(p) ==
    CASE p.type = FF_HW_PICTURE_TYPE_IDR -> HEVC_NAL_IDR_W_RADL
      [] p.type = FF_HW_PICTURE_TYPE_I   -> HEVC_NAL_CRA_NUT
      [] p.type = FF_HW_PICTURE_TYPE_P   -> HEVC_NAL_TRAIL_R
      [] OTHER ->
           IF p.b_depth = max_b_depth
           THEN (IF H265IrapRef(p) # NoPic THEN HEVC_NAL_RASL_N ELSE HEVC_NAL_TRAIL_N)
           ELSE (IF H265IrapRef(p) # NoPic THEN HEVC_NAL_RASL_R ELSE HEVC_NAL_TRAIL_R)

\* hpic->pic_order_cnt
H265PicOrderCnt(p, last_idr_frame) == p.display_order - last_idr_frame

\* VAAPIEncodeH265Picture as init_picture_params fills it for p
H265PictureState(p) ==
    LET idr  == p.type = FF_HW_PICTURE_TYPE_IDR
        last == IF idr THEN p.display_order ELSE hpics[p.prev].last_idr_frame
    IN  [ last_idr_frame |-> last,
          slice_nal_unit |-> H265SliceNalUnit(p),
          slice_type     |-> CASE p.type = FF_HW_PICTURE_TYPE_P -> HEVC_SLICE_P
                               [] p.type = FF_HW_PICTURE_TYPE_B -> HEVC_SLICE_B
                               [] OTHER                         -> HEVC_SLICE_I,
          pic_type       |-> CASE p.type = FF_HW_PICTURE_TYPE_P -> 1
                               [] p.type = FF_HW_PICTURE_TYPE_B -> 2
                               [] OTHER                         -> 0,
          pic_order_cnt  |-> H265PicOrderCnt(p, last) ]

\* one VAPictureHEVC entry
VAPictureHEVC(picture_id, poc, flags) ==
    [ picture_id |-> picture_id, pic_order_cnt |-> poc, flags |-> flags ]

VAInvalidHEVC == VAPictureHEVC("VA_INVALID_ID", 0, "VA_PICTURE_HEVC_INVALID")

\* vpic->reference_frames: the references of list 0 then list 1, flagged by
\* the side of the current picture they are displayed on, then invalid
\* entries up to the array's size
H265ReferenceFrames(p) ==
    LET all == p.refs[1] \o p.refs[2]
    IN  [ j \in 1..H265_REFERENCE_FRAMES |->
            IF j <= Len(all)
            THEN VAPictureHEVC(all[j], hpics[all[j]].pic_order_cnt,
                   IF pics[all[j]].display_order < p.display_order
                   THEN "VA_PICTURE_HEVC_RPS_ST_CURR_BEFORE"
                   ELSE IF pics[all[j]].display_order > p.display_order
                   THEN "VA_PICTURE_HEVC_RPS_ST_CURR_AFTER"
                   ELSE "0")
            ELSE VAInvalidHEVC ]

\* VAEncPictureParameterBufferHEVC filled for picture p with state hpic
H265PictureParams(p, hpic) ==
    [ decoded_curr_pic |-> VAPictureHEVC(p.encode_order, hpic.pic_order_cnt, "0"),
      reference_frames |-> H265ReferenceFrames(p),
      nal_unit_type |-> hpic.slice_nal_unit,
      reference_pic_flag |-> p.is_reference,
      idr_pic_flag |-> IF p.type = FF_HW_PICTURE_TYPE_IDR THEN 1 ELSE 0,
      coding_type |-> CASE p.type = FF_HW_PICTURE_TYPE_P -> 2
                        [] p.type = FF_HW_PICTURE_TYPE_B -> 3
                        [] OTHER                         -> 1 ]

\* the av_assert0 of init_picture_params that p trips ("" when none)
H265PictureAssert(p) ==
    IF p.type = FF_HW_PICTURE_TYPE_IDR /\ p.display_order # p.encode_order
    THEN "h265:772 display_order == encode_order"
    ELSE IF p.type # FF_HW_PICTURE_TYPE_IDR /\ p.prev = NoPic
    THEN "h265:779 prev"
    ELSE IF p.type = FF_HW_PICTURE_TYPE_B /\ (Len(p.refs[1]) = 0 \/ Len(p.refs[2]) = 0)
    THEN "h265:795 pic->refs[0][0] && pic->refs[1][0]"
    ELSE IF \E k \in 1..MAX_REFERENCE_LIST_NUM : \E i \in 1..Len(p.refs[k]) :
               \/ p.refs[k][i] \notin DOMAIN pics
               \/ ~(pics[p.refs[k][i]].encode_order < p.encode_order)
    THEN "h265:923 ref && ref->encode_order < pic->encode_order"
    ELSE ""

\* the SEI_* bits of the H.265 encoder beside SEI_A53_CC
SEI_MASTERING_DISPLAY == "SEI_MASTERING_DISPLAY"
SEI_CONTENT_LIGHT_LEVEL == "SEI_CONTENT_LIGHT_LEVEL"

H265SeiBits == {SEI_MASTERING_DISPLAY, SEI_CONTENT_LIGHT_LEVEL, SEI_A53_CC}

\* C17 mutant: any mastering display side data schedules the message.
H265SeiMasteringAnySideData(p) ==
    IF /\ SEI_MASTERING_DISPLAY \in sei
       /\ p.type \in {FF_HW_PICTURE_TYPE_I, FF_HW_PICTURE_TYPE_IDR}
       /\ p.input_image.mastering # "none"
    THEN {SEI_MASTERING_DISPLAY} ELSE {}

\* the mastering display bit of priv->sei_needed
H265SeiMastering(p) ==
    IF /\ SEI_MASTERING_DISPLAY \in sei
       /\ p.type \in {FF_HW_PICTURE_TYPE_I, FF_HW_PICTURE_TYPE_IDR}
       /\ p.input_image.mastering = "full"
    THEN {SEI_MASTERING_DISPLAY} ELSE {}

\* the content light level bit of priv->sei_needed
H265SeiLightLevel(p) ==
    IF /\ SEI_CONTENT_LIGHT_LEVEL \in sei
       /\ p.type \in {FF_HW_PICTURE_TYPE_I, FF_HW_PICTURE_TYPE_IDR}
       /\ p.input_image.light = 1
    THEN {SEI_CONTENT_LIGHT_LEVEL} ELSE {}

\* priv->sei_needed before the captions are looked at
H265SeiNeeded(p) == H265SeiMastering(p) \cup H265SeiLightLevel(p)

\* vaapi_encode_h265_init_picture_params for the picture p the scheduler issues
vaapi_encode_h265_init_picture_params(p) ==
    /\ variant = "h265"
    /\ pc \in {"idle", "slice"}
    /\ \E a53_err \in A53Results(p) :
       LET hpic == H265PictureState(p)
           live == LivePictures(p)
       IN  IF a53_err # OK
           THEN \* return err: the picture state and the flags are written
                /\ pics' = [ i \in live |-> IF i = p.encode_order THEN p ELSE Released(pics[i]) ]
                /\ hpics' = [ i \in live |-> IF i = p.encode_order THEN hpic ELSE hpics[i] ]
                /\ cur' = p.encode_order
                /\ aud_needed' = aud
                /\ sei_needed' = H265SeiNeeded(p)
                /\ written' = << >>
                /\ pc' = "failed"
                /\ out' = NoOutput
                /\ UNCHANGED <<config, sh, vpic, vslice, dflt, abort_at,
                               sei_cbr_workaround_needed, current_access_unit>>
           ELSE IF H265PictureAssert(p) # ""
           THEN Abort(H265PictureAssert(p))
           ELSE /\ pics' = [ i \in live |-> IF i = p.encode_order THEN p ELSE Released(pics[i]) ]
                /\ hpics' = [ i \in live |-> IF i = p.encode_order THEN hpic ELSE hpics[i] ]
                /\ cur' = p.encode_order
                /\ aud_needed' = aud
                /\ sei_needed' = H265SeiNeeded(p) \cup SeiA53Needed(p)
                /\ written' = << >>
                /\ vpic' = H265PictureParams(p, hpic)
                /\ pc' = "picture"
                /\ out' = NoOutput
                /\ UNCHANGED <<config, sh, vslice, dflt, abort_at,
                               sei_cbr_workaround_needed, current_access_unit>>


\* --------------------------------------------------- H.265 slice parameters
\* the slots of the short-term RPS arrays the model's pictures can reach
RpsSlots == MaxDpb

\* sh->short_term_ref_pic_set after memset(rps, 0, sizeof(*rps))
H265ZeroRps ==
    [ num_negative_pics |-> 0, num_positive_pics |-> 0,
      delta_poc_s0_minus1 |-> [ i \in 1..RpsSlots |-> 0 ],
      used_by_curr_pic_s0_flag |-> [ i \in 1..RpsSlots |-> 0 ],
      delta_poc_s1_minus1 |-> [ i \in 1..RpsSlots |-> 0 ],
      used_by_curr_pic_s1_flag |-> [ i \in 1..RpsSlots |-> 0 ] ]

\* priv->raw_slice.header as allocated (zeroed)
H265ZeroSliceHeader ==
    [ nal_unit_type |-> "", slice_type |-> "", slice_pic_order_cnt_lsb |-> 0,
      short_term_ref_pic_set_sps_flag |-> 0,
      short_term_ref_pic_set |-> H265ZeroRps,
      num_long_term_sps |-> 0, num_long_term_pics |-> 0 ]

\* sh->slice_type: a P slice is coded as B under p_to_gpb
H265SliceType(hpic) ==
    IF hpic.slice_type = HEVC_SLICE_P /\ p_to_gpb # 0 THEN HEVC_SLICE_B
    ELSE hpic.slice_type

\* sh->slice_pic_order_cnt_lsb
H265SlicePocLsb(hpic) ==
    MaskBits(hpic.pic_order_cnt, h265_log2_max_pic_order_cnt_lsb_minus4 + 4)

\* C8 mutant: only the references are collected.
H265RpsCollectRefsOnly(p) ==
    LET all == p.refs[1] \o p.refs[2]
    IN  [ i \in 1..Len(all) |-> [ poc |-> hpics[all[i]].pic_order_cnt, used |-> 1 ] ]

\* rps_poc[] / rps_used[] as collected: the references of list 0 then
\* list 1 with used 1, then every DPB picture that is neither the current
\* picture nor one of its references with used 0
H265RpsCollect(p) ==
    LET all     == p.refs[1] \o p.refs[2]
        other(id) == /\ id # p.encode_order
                     /\ id \notin Range(p.refs[1])
                     /\ id \notin Range(p.refs[2])
        rest    == SelectSeq(p.dpb, other)
    IN  [ i \in 1..Len(all) |-> [ poc |-> hpics[all[i]].pic_order_cnt, used |-> 1 ] ]
        \o [ i \in 1..Len(rest) |-> [ poc |-> hpics[rest[i]].pic_order_cnt, used |-> 0 ] ]

\* C10 mutant: the entries stay in the order collected.
H265RpsSinkNoSwap(rps, j) == [ fail |-> FALSE, rps |-> rps ]

\* C26 mutant: equal neighbours are left as they are.
RECURSIVE H265RpsSinkEqualKept(_, _)
H265RpsSinkEqualKept(rps, j) ==
    IF j > 0
    THEN IF rps[j + 1].poc >= rps[j].poc THEN [ fail |-> FALSE, rps |-> rps ]
         ELSE H265RpsSinkEqualKept(Swap(rps, j, j - 1), j - 1)
    ELSE [ fail |-> FALSE, rps |-> rps ]

\* The inner loop of the insertion sort: entry at C index j sinks while it
\* is not above its left neighbour; fail when the two are equal.
RECURSIVE H265RpsSink(_, _)
H265RpsSink(rps, j) ==
    IF j > 0
    THEN IF rps[j + 1].poc > rps[j].poc THEN [ fail |-> FALSE, rps |-> rps ]
         ELSE IF rps[j + 1].poc = rps[j].poc THEN [ fail |-> TRUE, rps |-> rps ]
         ELSE H265RpsSink(Swap(rps, j, j - 1), j - 1)
    ELSE [ fail |-> FALSE, rps |-> rps ]

\* The outer loop of the insertion sort, from C index i on.
RECURSIVE H265RpsSort(_, _)
H265RpsSort(rps, i) ==
    IF i < Len(rps)
    THEN LET r == H265RpsSink(rps, i)
         IN  IF r.fail THEN r ELSE H265RpsSort(r.rps, i + 1)
    ELSE [ fail |-> FALSE, rps |-> rps ]

\* The partition loop from C index i on: the index of the first entry above
\* the current POC c (rps_pics when there is none), -1 when an entry it
\* reads equals c.
RECURSIVE H265RpsSplit(_, _, _)
H265RpsSplit(rps, i, c) ==
    IF i < Len(rps)
    THEN IF rps[i + 1].poc = c THEN -1
         ELSE IF rps[i + 1].poc > c THEN i
         ELSE H265RpsSplit(rps, i + 1, c)
    ELSE i

\* C9 mutant: every negative entry is coded against the current POC.
H265DeltaPocS0Absolute(rps, i, c, k) == c - rps[i - k].poc - 1

\* delta_poc_s0_minus1[k] / used_by_curr_pic_s0_flag[k] for the k-th entry
\* (from 0) of the negative partition rps[0..i-1], walked from i-1 down
\* with the running poc
H265DeltaPocS0(rps, i, c, k) ==
    LET poc == IF k = 0 THEN c ELSE rps[i - k + 1].poc
    IN  poc - rps[i - k].poc - 1

\* delta_poc_s1_minus1[k] for the k-th entry (from 0) of the positive
\* partition rps[i..], walked upwards with the running poc
H265DeltaPocS1(rps, i, c, k) ==
    LET poc == IF k = 0 THEN c ELSE rps[i + k].poc
    IN  rps[i + k + 1].poc - poc - 1

\* sh->short_term_ref_pic_set for the sorted entries rps split at i
H265ShortTermRefPicSet(rps, i, c) ==
    [ num_negative_pics |-> i,
      num_positive_pics |-> Len(rps) - i,
      delta_poc_s0_minus1 |->
          [ k \in 1..RpsSlots |-> IF k <= i THEN H265DeltaPocS0(rps, i, c, k - 1) ELSE 0 ],
      used_by_curr_pic_s0_flag |->
          [ k \in 1..RpsSlots |-> IF k <= i THEN rps[i - k + 1].used ELSE 0 ],
      delta_poc_s1_minus1 |->
          [ k \in 1..RpsSlots |->
              IF k <= Len(rps) - i THEN H265DeltaPocS1(rps, i, c, k - 1) ELSE 0 ],
      used_by_curr_pic_s1_flag |->
          [ k \in 1..RpsSlots |-> IF k <= Len(rps) - i THEN rps[i + k].used ELSE 0 ] ]

\* the av_assert0 of init_slice_params that p trips ("" when none)
H265SliceAssert(p) ==
    LET sorted == H265RpsSort(H265RpsCollect(p), 1)
    IN  IF p.type # FF_HW_PICTURE_TYPE_IDR /\ sorted.fail
        THEN "h265:1059 rps_poc[j] != rps_poc[j - 1]"
        ELSE IF /\ p.type # FF_HW_PICTURE_TYPE_IDR
                /\ H265RpsSplit(sorted.rps, 0, hpics[p.encode_order].pic_order_cnt) < 0
        THEN "h265:1074 rps_poc[i] != hpic->pic_order_cnt"
        ELSE IF /\ nb_refs(p, 0) # 0
                /\ p.type \notin {FF_HW_PICTURE_TYPE_P, FF_HW_PICTURE_TYPE_B}
        THEN "h265:1174 pic->type == P || pic->type == B"
        ELSE IF nb_refs(p, 1) # 0 /\ p.type # FF_HW_PICTURE_TYPE_B
        THEN "h265:1183 pic->type == B"
        ELSE ""

\* priv->raw_slice.header after init_slice_params for p; old is the header
\* before the call (an IDR picture leaves the reference picture set alone)
H265SliceHeader(p, old) ==
    LET hpic   == hpics[p.encode_order]
        sorted == H265RpsSort(H265RpsCollect(p), 1).rps
        i      == H265RpsSplit(sorted, 0, hpic.pic_order_cnt)
        idr    == p.type = FF_HW_PICTURE_TYPE_IDR
    IN  [ nal_unit_type |-> hpic.slice_nal_unit,
          slice_type |-> H265SliceType(hpic),
          slice_pic_order_cnt_lsb |-> H265SlicePocLsb(hpic),
          short_term_ref_pic_set_sps_flag |->
              IF idr THEN old.short_term_ref_pic_set_sps_flag ELSE 0,
          short_term_ref_pic_set |->
              IF idr THEN old.short_term_ref_pic_set
              ELSE H265ShortTermRefPicSet(sorted, i, hpic.pic_order_cnt),
          num_long_term_sps |-> IF idr THEN old.num_long_term_sps ELSE 0,
          num_long_term_pics |-> IF idr THEN old.num_long_term_pics ELSE 0 ]

\* a backend reference list: one leading entry, the rest invalid
H265BackendList(first) ==
    [ i \in 1..H265_REF_PIC_LIST |-> IF i = 1 THEN first ELSE VAInvalidHEVC ]

\* VAEncSliceParameterBufferHEVC for p, from the header just built
H265SliceParams(p, header) ==
    LET gpb == p.type = FF_HW_PICTURE_TYPE_P /\ p_to_gpb # 0
        l0  == H265BackendList(IF nb_refs(p, 0) # 0
                               THEN vpic.reference_frames[1] ELSE VAInvalidHEVC)
        l1  == H265BackendList(IF nb_refs(p, 1) # 0
                               THEN vpic.reference_frames[2]
                               ELSE IF nb_refs(p, 0) # 0 /\ gpb
                               THEN vpic.reference_frames[1]
                               ELSE VAInvalidHEVC)
    IN  [ slice_type |-> IF gpb THEN HEVC_SLICE_B ELSE header.slice_type,
          ref_pic_list0 |-> l0,
          ref_pic_list1 |-> IF gpb THEN l0 ELSE l1 ]

\* vaapi_encode_h265_init_slice_params for a slice of the current picture
vaapi_encode_h265_init_slice_params ==
    /\ variant = "h265"
    /\ pc \in {"picture", "slice"}
    /\ LET p == pics[cur]
       IN  IF H265SliceAssert(p) # "" THEN Abort(H265SliceAssert(p))
           ELSE /\ sh' = H265SliceHeader(p, sh)
                /\ vslice' = H265SliceParams(p, H265SliceHeader(p, sh))
                /\ pc' = "slice"
                /\ out' = NoOutput
                /\ UNCHANGED <<config, pics, hpics, cur, vpic, dflt, abort_at,
                               needed, current_access_unit, written>>

\* --------------------------------------------------- H.265 specification
InitH265 ==
    /\ variant = "h265"
    /\ InitPlain
    /\ p_to_gpb \in {0, 1}
    /\ sh = H265ZeroSliceHeader
    /\ InitCommon

NextH265 ==
    \/ /\ NextEncodeOrder < MaxPics
       /\ \E p \in SchedulerPictures : vaapi_encode_h265_init_picture_params(p)
    \/ vaapi_encode_h265_init_slice_params

SpecH265 == InitH265 /\ [][NextH265]_vars

\* ------------------------------------------- sessions of either encoder
InitBoth == Init \/ InitH265

NextBoth ==
    \/ /\ NextEncodeOrder < MaxPics
       /\ \E p \in SchedulerPictures : vaapi_encode_h264_init_picture_params(p)
    \/ vaapi_encode_h264_init_slice_params
    \/ /\ NextEncodeOrder < MaxPics
       /\ \E p \in SchedulerPictures : vaapi_encode_h265_init_picture_params(p)
    \/ vaapi_encode_h265_init_slice_params

SpecBoth == InitBoth /\ [][NextBoth]_vars

\* ------------------------------------------- a scheduler under no contract
\* What the encoders do with pictures the scheduler should never hand over.
\* The scheduler of SpecAny keeps to the data structure only: the first
\* picture is an IDR picture; every later picture has any type, a display
\* order near its encode order whether taken or not, an I picture may be
\* marked as not used for reference, reference lists of any pictures among its predecessor and the
\* predecessor's DPB (in any order, with repetition), and a DPB snapshot of
\* any of these pictures and itself (newest first).  Sessions are configured
\* with one level of B-frames.
AnyCandidates == Range(pics[cur].dpb) \cup {cur}

AnyLists(k) == UNION { [1..n -> AnyCandidates] : n \in 1..k }

AnyDpbs(eo) ==
    { s \in Arrangements(AnyCandidates \cup {eo}, MaxDpb) :
        \A i, j \in 1..Len(s) : i < j => s[i] > s[j] }

AnyDisplayOrders(eo) == { d \in (eo - 1)..(eo + MaxReorder) : d >= 0 }

AnyPictures ==
    LET eo == NextEncodeOrder IN
    IF cur = NoPic THEN SchedIDR(eo)
    ELSE { Picture(FF_HW_PICTURE_TYPE_IDR, eo, eo, 1, 0, <<>>, <<>>, dpb, cur) :
             dpb \in AnyDpbs(eo) }
         \cup { Picture(FF_HW_PICTURE_TYPE_I, d, eo, r, 0, <<>>, <<>>, dpb, cur) :
                  d \in AnyDisplayOrders(eo), r \in {0, 1}, dpb \in AnyDpbs(eo) }
         \cup { Picture(FF_HW_PICTURE_TYPE_P, d, eo, 1, 0, l0, <<>>, dpb, cur) :
                  d \in AnyDisplayOrders(eo), l0 \in AnyLists(MaxAnyRefs),
                  dpb \in AnyDpbs(eo) }
         \cup { Picture(FF_HW_PICTURE_TYPE_B, d, eo, BIsReference(bd), bd, l0, l1, dpb, cur) :
                  d \in AnyDisplayOrders(eo), bd \in 1..max_b_depth,
                  l0 \in AnyLists(MaxRefs), l1 \in AnyLists(MaxRefs),
                  dpb \in AnyDpbs(eo) }

InitAny ==
    /\ variant \in {"h264", "h265"}
    /\ p_to_gpb = 0
    /\ InitPlain
    /\ sh = IF variant = "h264" THEN H264ZeroSliceHeader ELSE H265ZeroSliceHeader
    /\ InitCommon
    /\ max_b_depth = 1

NextAny ==
    \/ /\ NextEncodeOrder < MaxAnyPics
       /\ \E p \in AnyPictures : vaapi_encode_h264_init_picture_params(p)
    \/ vaapi_encode_h264_init_slice_params
    \/ /\ NextEncodeOrder < MaxAnyPics
       /\ \E p \in AnyPictures : vaapi_encode_h265_init_picture_params(p)
    \/ vaapi_encode_h265_init_slice_params

SpecAny == InitAny /\ [][NextAny]_vars

\* ------------------------------------------ reference graph specification
\* The scheduler of SpecNal: H.265 pictures of every type and B-depth whose
\* first references are any pictures issued earlier and still live, each
\* picture displayed in encode order, the DPB as full as it can be.
NalDpbs(eo) ==
    { s \in AnyDpbs(eo) :
        Len(s) = MaxDpb \/ Len(s) = Cardinality(AnyCandidates \cup {eo}) }

NalPictures ==
    LET eo == NextEncodeOrder IN
    IF cur = NoPic THEN SchedIDR(eo)
    ELSE { Picture(FF_HW_PICTURE_TYPE_IDR, eo, eo, 1, 0, <<>>, <<>>, dpb, cur) :
             dpb \in NalDpbs(eo) }
         \cup { Picture(FF_HW_PICTURE_TYPE_I, eo, eo, 1, 0, <<>>, <<>>, dpb, cur) :
                  dpb \in NalDpbs(eo) }
         \cup { Picture(FF_HW_PICTURE_TYPE_P, eo, eo, 1, 0, <<l0>>, <<>>, dpb, cur) :
                  l0 \in AnyCandidates, dpb \in NalDpbs(eo) }
         \cup { Picture(FF_HW_PICTURE_TYPE_B, eo, eo, BIsReference(bd), bd,
                        <<l0>>, <<l1>>, dpb, cur) :
                  bd \in 1..max_b_depth, l0 \in AnyCandidates, l1 \in AnyCandidates,
                  dpb \in NalDpbs(eo) }

InitNal ==
    /\ variant = "h265"
    /\ p_to_gpb = 0
    /\ InitPlain
    /\ sh = H265ZeroSliceHeader
    /\ InitWriterState
    /\ max_b_depth = MaxNalBDepth
    /\ pics = << >>
    /\ hpics = << >>
    /\ cur = NoPic
    /\ pc = "idle"
    /\ vpic = NoPictureParams
    /\ vslice = NoSliceParams
    /\ dflt = NoLists
    /\ abort_at = ""

NextNal ==
    \/ /\ NextEncodeOrder < MaxPics
       /\ \E p \in NalPictures : vaapi_encode_h265_init_picture_params(p)
    \/ vaapi_encode_h265_init_slice_params

SpecNal == InitNal /\ [][NextNal]_vars

\* ------------------------------------------------------- header writers
\* The pending fragment (priv->current_access_unit) is the sequence of the
\* units and SEI messages appended to it.  ff_cbs_write_fragment_data
\* serializes every pending unit to UnitBytes bytes, so the output buffer
\* is modelled as the sequence of the units whose bytes it holds.
AUD == "AUD"
VPS == "VPS"
SPS == "SPS"
PPS == "PPS"
SLICE == "SLICE"

\* &priv->aud handed to vaapi_encode_h265_add_nal: the int option read as a
\* NAL unit; whatever it serializes to is no access unit delimiter
AudOption == "priv->aud"

\* priv->raw_aud as init_picture_params leaves it for the current picture
\* when priv->aud is set; the unit AUD is a reference to this record
raw_aud ==
    IF variant = "h264"
    THEN [ nal_unit_type |-> "H264_NAL_AUD",
           primary_pic_type |-> hpics[cur].primary_pic_type ]
    ELSE [ nal_unit_type |-> "HEVC_NAL_AUD", nuh_layer_id |-> 0,
           nuh_temporal_id_plus1 |-> 1, pic_type |-> hpics[cur].pic_type ]

\* the object behind a unit handed to add_nal
UnitContent(unit) == IF unit = AUD THEN raw_aud ELSE [ object |-> unit ]

VAEncPackedHeaderRawData == "VAEncPackedHeaderRawData"
VAEncPackedHeaderH264_SEI == "VAEncPackedHeaderH264_SEI"

\* C12 mutant: the fragment keeps its units.
FragmentKept(au) == au

\* ff_cbs_fragment_reset
ff_cbs_fragment_reset(au) == << >>

\* C13 mutant: a buffer of exactly the required size is refused.
AccessUnitTooLargeOrEqual(data_len, data_size, data_bit_padding) ==
    data_len <= 8 * data_size - data_bit_padding

\* the capacity test of write_access_unit
AccessUnitTooLarge(data_len, data_size, data_bit_padding) ==
    data_len < 8 * data_size - data_bit_padding

\* What one writer call does with the units plan it appends, with the flags
\* as the call found them (aud_due, sei_due, cbr_due): fail_at = 0 is
\* a call whose CBS calls all succeed, fail_at = k the call whose k-th
\* append fails, fail_at = Len(plan) + 1 the call whose
\* ff_cbs_write_fragment_data fails.  data_len is the caller's capacity in
\* bits, padding the au->data_bit_padding of the serialized fragment.
WriterCall(op, plan, fail_at, data_len, padding) ==
    LET n        == IF fail_at \in 1..Len(plan) THEN fail_at - 1 ELSE Len(plan)
        au       == current_access_unit \o SubSeq(plan, 1, n)
        appended == n = Len(plan)
        serialized == appended /\ fail_at = 0
        data_size == UnitBytes * Len(au)
        err      == IF ~appended THEN ENOMEM
                    ELSE IF ~serialized THEN EINVAL
                    ELSE IF AccessUnitTooLarge(data_len, data_size, padding) THEN ENOSPC
                    ELSE OK
    IN  [ op        |-> op,
          aud_due   |-> aud_needed,
          sei_due   |-> sei_needed,
          cbr_due   |-> sei_cbr_workaround_needed,
          capacity  |-> data_len,
          planned   |-> Len(plan),
          appended  |-> n,
          au        |-> au,
          serialized |-> serialized,
          data_size |-> IF serialized THEN data_size ELSE 0,
          data_bit_padding |-> IF serialized THEN padding ELSE 0,
          err       |-> err,
          data      |-> IF err = OK THEN au ELSE << >>,
          data_len  |-> IF err = OK THEN 8 * data_size - padding ELSE data_len,
          type      |-> "" ]

\* the delimiter a writer puts first while priv->aud_needed is set
AudUnits(unit) == IF aud_needed # 0 THEN <<unit>> ELSE << >>

\* C19 mutant: the flag stays set after the delimiter is appended.
AudNeededKept(r) == aud_needed

\* priv->aud_needed after the call with the result r: cleared once the
\* delimiter is appended
AudNeededAfter(r) ==
    IF aud_needed # 0 /\ r.appended >= 1 THEN 0 ELSE aud_needed

\* the buffers written for the current picture, the call's included
WrittenAfter(r) ==
    IF r.err = OK THEN Append(written, [ op |-> r.op, data |-> r.data, type |-> r.type ])
    ELSE written

\* the inputs of a writer call: the failing CBS call, the capacity in bits
\* and the padding of the serialized fragment
FailAts(plan) == (0..MaxFailAt) \cup {Len(plan) + 1}

\* the capacity and padding inputs explored with the failing call fail_at:
\* a call whose CBS call fails never looks at them
WriterInputs(fail_at) ==
    IF fail_at = 0 THEN Capacities \X (0..MaxPadding) ELSE { <<MaxCapacity, 0>> }

\* the parameter sets of the variant, in the order they are appended
SequenceUnits == IF variant = "h264" THEN <<SPS, PPS>> ELSE <<VPS, SPS, PPS>>

\* vaapi_encode_h264_write_sequence_header / vaapi_encode_h265_write_sequence_header.
\* The caller writes the sequence header and the extra headers of a picture
\* before it builds the slices, and the sequence header also before the
\* first picture.
write_sequence_header ==
    /\ pc \in {"idle", "picture"}
    /\ Len(written) < MaxBuffers
    /\ LET plan == AudUnits(AUD) \o SequenceUnits
       IN  \E fail_at \in FailAts(plan) : \E in \in WriterInputs(fail_at) :
             LET r == WriterCall("write_sequence_header", plan, fail_at, in[1], in[2])
             IN  /\ aud_needed' = AudNeededAfter(r)
                 /\ current_access_unit' = ff_cbs_fragment_reset(r.au)
                 /\ out' = r
                 /\ written' = WrittenAfter(r)
                 /\ UNCHANGED <<config, pics, hpics, cur, pc, sh, vpic, vslice, dflt,
                                abort_at, sei_needed, sei_cbr_workaround_needed>>

\* vaapi_encode_h264_write_slice_header / vaapi_encode_h265_write_slice_header
write_slice_header ==
    /\ pc = "slice"
    /\ Len(written) < MaxBuffers
    /\ LET plan == AudUnits(AUD) \o <<SLICE>>
       IN  \E fail_at \in FailAts(plan) : \E in \in WriterInputs(fail_at) :
             LET r == WriterCall("write_slice_header", plan, fail_at, in[1], in[2])
             IN  /\ aud_needed' = AudNeededAfter(r)
                 /\ current_access_unit' = ff_cbs_fragment_reset(r.au)
                 /\ out' = r
                 /\ written' = WrittenAfter(r)
                 /\ UNCHANGED <<config, pics, hpics, cur, pc, sh, vpic, vslice, dflt,
                                abort_at, sei_needed, sei_cbr_workaround_needed>>

\* the SEI messages
identifier == "identifier"
buffering_period == "buffering_period"
pic_timing == "pic_timing"
recovery_point == "recovery_point"
mastering_display == "mastering_display"
content_light_level == "content_light_level"
a53_cc == "a53_cc"

\* the messages of the SEI_TIMING bit
H264TimingMessages(p) ==
    IF SEI_TIMING \in sei_needed
    THEN (IF p.type = FF_HW_PICTURE_TYPE_IDR THEN <<buffering_period>> ELSE << >>)
         \o <<pic_timing>>
    ELSE << >>

\* what vaapi_encode_h264_write_extra_header appends while sei_needed is set
H264ExtraUnits(p) ==
    AudUnits(AUD)
    \o (IF SEI_IDENTIFIER \in sei_needed THEN <<identifier>> ELSE << >>)
    \o H264TimingMessages(p)
    \o (IF SEI_RECOVERY_POINT \in sei_needed THEN <<recovery_point>> ELSE << >>)
    \o (IF SEI_A53_CC \in sei_needed THEN <<a53_cc>> ELSE << >>)

\* what vaapi_encode_h265_write_extra_header appends while sei_needed is set
H265ExtraUnits(p) ==
    AudUnits(AudOption)
    \o (IF SEI_MASTERING_DISPLAY \in sei_needed THEN <<mastering_display>> ELSE << >>)
    \o (IF SEI_CONTENT_LIGHT_LEVEL \in sei_needed THEN <<content_light_level>> ELSE << >>)
    \o (IF SEI_A53_CC \in sei_needed THEN <<a53_cc>> ELSE << >>)

\* C18 mutant: the bits stay set after the messages are appended.
SeiNeededKept(r) == sei_needed

\* priv->sei_needed after the call with the result r: cleared once every
\* message is appended
SeiNeededAfter(r) == IF r.appended = r.planned THEN {} ELSE sei_needed

\* a write_extra_header call that touches neither the fragment nor the buffer
ExtraReturn(err, data_len_in, data_len_out, type) ==
    [ op |-> "write_extra_header", aud_due |-> aud_needed, sei_due |-> sei_needed,
      cbr_due |-> sei_cbr_workaround_needed, capacity |-> data_len_in, planned |-> 0,
      appended |-> 0,
      au |-> current_access_unit, serialized |-> FALSE, data_size |-> 0,
      data_bit_padding |-> 0, err |-> err, data |-> << >>,
      data_len |-> data_len_out, type |-> type ]

\* vaapi_encode_h264_write_extra_header / vaapi_encode_h265_write_extra_header
write_extra_header ==
    /\ pc = "picture"
    /\ Len(written) < MaxBuffers
    /\ IF sei_needed # {}
       THEN LET plan == IF variant = "h264" THEN H264ExtraUnits(pics[cur])
                        ELSE H265ExtraUnits(pics[cur])
            IN  \E fail_at \in FailAts(plan) : \E in \in WriterInputs(fail_at) :
                  LET w == WriterCall("write_extra_header", plan, fail_at, in[1], in[2])
                      r == [ w EXCEPT !.type = IF w.err = OK THEN VAEncPackedHeaderRawData
                                               ELSE "" ]
                  IN  /\ aud_needed' = AudNeededAfter(r)
                      /\ sei_needed' = SeiNeededAfter(r)
                      /\ current_access_unit' = ff_cbs_fragment_reset(r.au)
                      /\ out' = r
                      /\ written' = WrittenAfter(r)
                      /\ UNCHANGED <<config, pics, hpics, cur, pc, sh, vpic, vslice, dflt,
                                     abort_at, sei_cbr_workaround_needed>>
       ELSE \E data_len \in Capacities :
              IF variant = "h264" /\ options.CONFIG_VAAPI_1 = 0
                 /\ sei_cbr_workaround_needed # 0
              THEN LET r == ExtraReturn(OK, data_len, 0, VAEncPackedHeaderH264_SEI)
                   IN  /\ sei_cbr_workaround_needed' = 0
                       /\ out' = r
                       /\ written' = WrittenAfter(r)
                       /\ UNCHANGED <<config, pics, hpics, cur, pc, sh, vpic, vslice, dflt,
                                      abort_at, aud_needed, sei_needed, current_access_unit>>
              ELSE /\ out' = ExtraReturn(AVERROR_EOF, data_len, data_len, "")
                   /\ UNCHANGED <<config, pics, hpics, cur, pc, sh, vpic, vslice, dflt,
                                  abort_at, needed, current_access_unit, written>>

\* ------------------------------------------------ writer specifications
\* The scheduler of a writer run, a fixed GOP out of SchedulerPictures with
\* every picture type: IDR, P (displayed one picture ahead), the
\* non-reference B picture it skipped, I; each with any side data.
WriterGop ==
    LET eo == NextEncodeOrder IN
    IF cur = NoPic THEN SchedIDR(eo)
    ELSE IF pics[cur].type = FF_HW_PICTURE_TYPE_IDR
    THEN { Picture(FF_HW_PICTURE_TYPE_P, eo + 1, eo, 1, 0,
                   <<NewestInDpb>>, <<>>, <<eo, NewestInDpb>>, cur) }
    ELSE IF pics[cur].type = FF_HW_PICTURE_TYPE_P
    THEN { Picture(FF_HW_PICTURE_TYPE_B, eo - 1, eo, BIsReference(1), 1,
                   pics[cur].refs[1], <<cur>>, pics[cur].dpb, cur) }
    ELSE { Picture(FF_HW_PICTURE_TYPE_I, eo, eo, 1, 0,
                   <<>>, <<>>, <<eo, NewestInDpb>>, cur) }

\* the side data the variant looks at
WriterImages ==
    IF variant = "h264" THEN { SideData(a, "none", 0) : a \in {0, 1} }
    ELSE { i \in InputImages :
             \/ i.a53 + i.light = 0
             \/ i.mastering = "none" /\ i.a53 + i.light = 1
             \/ i.mastering = "full" /\ i.a53 + i.light = 2 }

WriterSchedulerPictures ==
    { [ q EXCEPT !.input_image = img ] : q \in WriterGop, img \in WriterImages }

\* A session: the variant, the user's options and the build.
Session(v, o, a) == [ variant |-> v, options |-> o, aud |-> a ]

\* The H.264 sessions of SpecWriter.  With delimiters: constant bitrate
\* (HRD) with every sei option; constant QP (no HRD) with timing asked for;
\* the build without CONFIG_VAAPI_1 at constant bitrate with no message and
\* with all of them.  Without delimiters: all messages, and the build
\* without CONFIG_VAAPI_1 with none.
H264WriterSessions ==
    { Session("h264", Options(o, 1, "VA_RC_CBR", 1), 1) : o \in SUBSET H264SeiBits }
    \cup { Session("h264", Options(o, 0, "VA_RC_CQP", 1), 1) :
             o \in { {SEI_TIMING}, H264SeiBits } }
    \cup { Session("h264", Options(o, 1, "VA_RC_CBR", 0), 1) : o \in { {}, H264SeiBits } }
    \cup { Session("h264", Options(H264SeiBits, 1, "VA_RC_CBR", 1), 0),
           Session("h264", Options({}, 1, "VA_RC_CBR", 0), 0) }

\* The H.265 sessions of SpecWriter: every sei option with delimiters, all
\* messages without.
H265WriterSessions ==
    { Session("h265", Options(o, 0, "VA_RC_CQP", 1), 1) : o \in SUBSET H265SeiBits }
    \cup { Session("h265", Options(H265SeiBits, 0, "VA_RC_CQP", 1), 0) }

\* priv->sei after the variant's configure
ConfigureSei(s) ==
    IF s.variant = "h264" THEN H264ConfigureSei(s.options.sei, s.options.hrd)
    ELSE s.options.sei

InitWriter ==
    /\ \E s \in H264WriterSessions \cup H265WriterSessions :
         /\ variant = s.variant
         /\ options = s.options
         /\ aud = s.aud
         /\ sei = ConfigureSei(s)
    /\ avctx = PlainContext
    /\ seq = SequenceParams(variant, PlainContext)
    /\ sh = IF variant = "h264" THEN H264ZeroSliceHeader ELSE H265ZeroSliceHeader
    /\ p_to_gpb = 0
    /\ max_b_depth = 1
    /\ InitWriterState
    /\ pics = << >>
    /\ hpics = << >>
    /\ cur = NoPic
    /\ pc = "idle"
    /\ vpic = NoPictureParams
    /\ vslice = NoSliceParams
    /\ dflt = NoLists
    /\ abort_at = ""

NextWriter ==
    \/ /\ NextEncodeOrder < MaxWriterPics
       /\ \E p \in WriterSchedulerPictures : vaapi_encode_h264_init_picture_params(p)
    \/ /\ NextEncodeOrder < MaxWriterPics
       /\ \E p \in WriterSchedulerPictures : vaapi_encode_h265_init_picture_params(p)
    \/ vaapi_encode_h264_init_slice_params
    \/ vaapi_encode_h265_init_slice_params
    \/ write_sequence_header
    \/ write_slice_header
    \/ write_extra_header

SpecWriter == InitWriter /\ [][NextWriter]_vars

\* --------------------------------------- sequence parameter specification
\* The sessions of SpecSequence: both variants, either tier, an explicit
\* level or none, a supported pixel format or not, and every answer of the
\* level autodetection.
SequenceContexts ==
    { Context(l, t, c, g) :
        l \in {AV_LEVEL_UNKNOWN} \cup Levels,
        t \in {0, 1},
        c \in BOOLEAN,
        g \in {NoLevel} \cup { LevelDescriptor(d, f) : d \in Levels, f \in {0, 1} } }

vaapi_encode_h264_init_sequence_params ==
    /\ variant = "h264"
    /\ pc = "init"
    /\ seq' = H264SequenceParams(avctx)
    /\ pc' = IF H264SequenceParams(avctx).err = OK THEN "idle" ELSE "failed"
    /\ UNCHANGED <<variant, max_b_depth, p_to_gpb, options, aud, sei, avctx,
                   pics, hpics, cur, sh, vpic, vslice, dflt, abort_at, needed, writer>>

vaapi_encode_h265_init_sequence_params ==
    /\ variant = "h265"
    /\ pc = "init"
    /\ seq' = H265SequenceParams(avctx)
    /\ pc' = IF H265SequenceParams(avctx).err = OK THEN "idle" ELSE "failed"
    /\ UNCHANGED <<variant, max_b_depth, p_to_gpb, options, aud, sei, avctx,
                   pics, hpics, cur, sh, vpic, vslice, dflt, abort_at, needed, writer>>

InitSequence ==
    /\ variant \in {"h264", "h265"}
    /\ avctx \in SequenceContexts
    /\ seq = NoSequenceParams
    /\ options = Options({}, 0, "VA_RC_CQP", 1)
    /\ aud = 0
    /\ sei = {}
    /\ sh = IF variant = "h264" THEN H264ZeroSliceHeader ELSE H265ZeroSliceHeader
    /\ p_to_gpb = 0
    /\ max_b_depth = 0
    /\ InitWriterState
    /\ pics = << >>
    /\ hpics = << >>
    /\ cur = NoPic
    /\ pc = "init"
    /\ vpic = NoPictureParams
    /\ vslice = NoSliceParams
    /\ dflt = NoLists
    /\ abort_at = ""

NextSequence ==
    \/ vaapi_encode_h264_init_sequence_params
    \/ vaapi_encode_h265_init_sequence_params

SpecSequence == InitSequence /\ [][NextSequence]_vars

\* =================================================================== claims
\* C1: over any sequence of pictures in encode order, the frame_num written
\* for a picture is 0 for an IDR picture and otherwise the frame_num written
\* for its predecessor plus the predecessor's is_reference, modulo
\* 2^(4 + log2_max_frame_num_minus4) = 256.  (The slice header still holds
\* the predecessor's frame_num when the first slice of a picture is built.)
C1_FrameNum ==
    [][ (pc = "picture" /\ pc' = "slice") =>
          sh'.frame_num =
            IF pics[cur].type = FF_HW_PICTURE_TYPE_IDR THEN 0
            ELSE (sh.frame_num + pics[pics[cur].prev].is_reference)
                     % Pow2(4 + log2_max_frame_num_minus4) ]_vars

\* C1 witness: a picture past the wrap whose predecessor is a non-reference
\* picture: frame_num 256 is written as 0.
C1_Witness ==
    /\ pc = "slice"
    /\ pics[cur].type # FF_HW_PICTURE_TYPE_IDR
    /\ pics[pics[cur].prev].is_reference = 0
    /\ hpics[cur].frame_num = Pow2(4 + log2_max_frame_num_minus4)
    /\ sh.frame_num = 0


\* the current picture, once its slice parameters are built by the H.264 encoder
H264SliceBuilt(type) ==
    /\ variant = "h264"
    /\ pc = "slice"
    /\ pics[cur].type = type

\* the lists as the insertion loop leaves them for the current picture
H264BuiltLists == H264DefaultLoop(pics[cur], 0, <<>>, <<>>)

\* the DPB snapshot the current picture's default lists are drawn from
H264Candidates == Range(pics[pics[cur].prev].dpb)

\* C2: the default list 0 of a P picture holds exactly the pictures of the
\* predecessor's DPB snapshot, each once, in strictly descending frame_num,
\* whatever the order of the snapshot.
C2_DefaultListP ==
    H264SliceBuilt(FF_HW_PICTURE_TYPE_P) =>
        LET n    == Cardinality(H264Candidates)
            rpl0 == dflt.rpl0
        IN  /\ dflt.n = n
            /\ { rpl0[i] : i \in 1..n } = H264Candidates
            /\ \A i \in 1..n : \A j \in 1..n :
                 i < j => hpics[rpl0[i]].frame_num > hpics[rpl0[j]].frame_num

\* C2 witness: a P picture with three candidates whose snapshot lists them
\* in ascending frame_num.
C2_Witness ==
    /\ H264SliceBuilt(FF_HW_PICTURE_TYPE_P)
    /\ dflt.n = 3
    /\ LET dpb == pics[pics[cur].prev].dpb
       IN  \A i \in 1..2 : hpics[dpb[i]].frame_num < hpics[dpb[i + 1]].frame_num

\* C3: the default list 0 of a B picture holds every candidate once: first
\* those with POC below the current picture's in decreasing POC, then those
\* with POC above it in increasing POC, whatever the order of the snapshot.
C3_DefaultListB0 ==
    H264SliceBuilt(FF_HW_PICTURE_TYPE_B) =>
        LET n    == Cardinality(H264Candidates)
            rpl0 == H264BuiltLists.rpl0
            c    == hpics[cur].pic_order_cnt
            poc(i) == hpics[rpl0[i]].pic_order_cnt
        IN  /\ H264BuiltLists.n = n /\ Len(rpl0) = n
            /\ { rpl0[i] : i \in 1..n } = H264Candidates
            /\ SubSeq(dflt.rpl0, 1, n) = rpl0
            /\ \A i \in 1..n : \A j \in 1..n :
                 i < j =>
                   /\ ~(poc(i) > c /\ poc(j) < c)
                   /\ (poc(i) < c /\ poc(j) < c) => poc(i) > poc(j)
                   /\ (poc(i) > c /\ poc(j) > c) => poc(i) < poc(j)

\* C3 witness: a B picture with two past candidates and a future one, the
\* snapshot not listing them in the order of list 0.
C3_Witness ==
    /\ H264SliceBuilt(FF_HW_PICTURE_TYPE_B)
    /\ dflt.n = 3
    /\ Cardinality({ i \in H264Candidates :
                       hpics[i].pic_order_cnt < hpics[cur].pic_order_cnt }) = 2
    /\ SubSeq(dflt.rpl0, 1, 3) # pics[pics[cur].prev].dpb

C5_DegenerateSwap ==
    H264SliceBuilt(FF_HW_PICTURE_TYPE_B) =>
        LET n    == H264BuiltLists.n
            b0   == H264BuiltLists.rpl0
            b1   == H264BuiltLists.rpl1
            l0   == SubSeq(dflt.rpl0, 1, n)
            l1   == SubSeq(dflt.rpl1, 1, n)
        IN  /\ l0 = b0
            /\ b0 # b1 => l1 = b1
            /\ (b0 = b1 /\ n >= 2) => l1 = Swap(b1, 0, 1)
            /\ n >= 2 => l0 # l1

\* C5 witness: a B picture whose two candidates both precede it, so the
\* constructed lists are equal and list 1 comes out with its first two
\* entries exchanged.
C5_Witness ==
    /\ H264SliceBuilt(FF_HW_PICTURE_TYPE_B)
    /\ dflt.n = 2
    /\ H264BuiltLists.rpl0 = H264BuiltLists.rpl1
    /\ dflt.rpl1[1] = dflt.rpl0[2]
    /\ dflt.rpl1[2] = dflt.rpl0[1]

\* whether the chosen list differs from the default list at an index below
\* its length
ListDiffers(refs, def) == \E i \in 1..Len(refs) : refs[i] # def[i]

\* C6: ref_pic_list_modification_flag_lX is 1 exactly when the chosen list X
\* differs from the default list X at some index below nb_refs[X]; the two
\* lists of a B picture are decided independently.
C6_ModificationFlag ==
    /\ H264SliceBuilt(FF_HW_PICTURE_TYPE_P) =>
         sh.ref_pic_list_modification_flag_l0 =
             IF ListDiffers(pics[cur].refs[1], dflt.rpl0) THEN 1 ELSE 0
    /\ H264SliceBuilt(FF_HW_PICTURE_TYPE_B) =>
         /\ sh.ref_pic_list_modification_flag_l0 =
                IF ListDiffers(pics[cur].refs[1], dflt.rpl0) THEN 1 ELSE 0
         /\ sh.ref_pic_list_modification_flag_l1 =
                IF ListDiffers(pics[cur].refs[2], dflt.rpl1) THEN 1 ELSE 0

\* C6 witness: a B picture that lists its two past references farthest
\* first while list 1 follows the default: only list 0 is flagged.
C6_Witness ==
    /\ H264SliceBuilt(FF_HW_PICTURE_TYPE_B)
    /\ Len(pics[cur].refs[1]) = 2 /\ Len(pics[cur].refs[2]) = 1
    /\ pics[cur].refs[1][1] = dflt.rpl0[2]
    /\ pics[cur].refs[1][2] = dflt.rpl0[1]
    /\ pics[cur].refs[2][1] = dflt.rpl1[1]
    /\ sh.ref_pic_list_modification_flag_l0 = 1
    /\ sh.ref_pic_list_modification_flag_l1 = 0

\* The decoder's reading of a command list: the picture numbers selected by
\* the commands up to the end marker (idc 3), from predictor pred; idc 0
\* subtracts abs_diff_pic_num_minus1 + 1 and idc 1 adds it.
RECURSIVE DecodeRplm(_, _, _)
DecodeRplm(cmds, i, pred) ==
    IF i > Len(cmds) \/ cmds[i].modification_of_pic_nums_idc \notin {0, 1}
    THEN <<>>
    ELSE LET d  == cmds[i].abs_diff_pic_num_minus1 + 1
             pn == IF cmds[i].modification_of_pic_nums_idc = 0
                   THEN pred - d ELSE pred + d
         IN  <<pn>> \o DecodeRplm(cmds, i + 1, pn)

\* the frame_num of each picture of a chosen list, in order
FrameNums(refs) == [ i \in 1..Len(refs) |-> hpics[refs[i]].frame_num ]

\* C7: when modification commands are emitted for a list there are exactly
\* nb_refs of them followed by the end marker idc 3, and applying them in
\* order from the current picture's frame_num yields the frame_num of each
\* chosen reference in order.
C7_ModificationRoundTrip ==
    /\ ( /\ variant = "h264" /\ pc = "slice"
         /\ pics[cur].type \in {FF_HW_PICTURE_TYPE_P, FF_HW_PICTURE_TYPE_B}
         /\ sh.ref_pic_list_modification_flag_l0 = 1 ) =>
         /\ DecodeRplm(sh.rplm_l0, 1, hpics[cur].frame_num) = FrameNums(pics[cur].refs[1])
         /\ sh.rplm_l0[Len(pics[cur].refs[1]) + 1].modification_of_pic_nums_idc = 3
    /\ ( /\ H264SliceBuilt(FF_HW_PICTURE_TYPE_B)
         /\ sh.ref_pic_list_modification_flag_l1 = 1 ) =>
         /\ DecodeRplm(sh.rplm_l1, 1, hpics[cur].frame_num) = FrameNums(pics[cur].refs[2])
         /\ sh.rplm_l1[Len(pics[cur].refs[2]) + 1].modification_of_pic_nums_idc = 3

\* C7 witness: a P picture that lists an older reference before a newer
\* one: a subtracting command, an adding command, the end marker.
C7_Witness ==
    /\ H264SliceBuilt(FF_HW_PICTURE_TYPE_P)
    /\ sh.ref_pic_list_modification_flag_l0 = 1
    /\ Len(pics[cur].refs[1]) = 2
    /\ sh.rplm_l0[1].modification_of_pic_nums_idc = 0
    /\ sh.rplm_l0[2].modification_of_pic_nums_idc = 1
    /\ sh.rplm_l0[2].abs_diff_pic_num_minus1 = 0
    /\ sh.rplm_l0[3].modification_of_pic_nums_idc = 3


\* the current picture is not an IDR picture and the H.265 encoder has built
\* its slice parameters
H265RpsBuilt ==
    /\ variant = "h265"
    /\ pc = "slice"
    /\ pics[cur].type # FF_HW_PICTURE_TYPE_IDR

\* the pictures the reference picture set has to describe: the references of
\* either list and the unreferenced pictures of the DPB snapshot, the current
\* picture left out
RpsPictures ==
    (Range(pics[cur].refs[1]) \cup Range(pics[cur].refs[2]) \cup Range(pics[cur].dpb))
        \ {cur}

RpsPocs == { hpics[i].pic_order_cnt : i \in RpsPictures }

\* The decoder's reading of a partition: the POC of its k-th entry, walking
\* away from the current POC c by delta_poc_minus1 + 1 per entry
\* (dir = -1 for the negative partition, 1 for the positive one).
RECURSIVE DecodedPoc(_, _, _, _)
DecodedPoc(delta_minus1, c, dir, k) ==
    IF k = 0 THEN c
    ELSE DecodedPoc(delta_minus1, c, dir, k - 1) + dir * (delta_minus1[k] + 1)

\* the k-th POC of P below (dir = -1) or above (dir = 1) c, nearest first
NthFrom(P, c, dir, k) ==
    CHOOSE q \in P :
        /\ (q - c) * dir > 0
        /\ Cardinality({ r \in P : (r - c) * dir > 0 /\ (q - r) * dir > 0 }) = k - 1

\* C8: for every non-IDR picture the decoded reference picture set is
\* exactly the POC set of its references and of the unreferenced pictures of
\* its DPB snapshot other than itself, each POC once, the two counts adding
\* up to the size of that set, and the used flag is 1 exactly on the
\* references.
C8_RpsContents ==
    H265RpsBuilt =>
        LET rps  == sh.short_term_ref_pic_set
            c    == hpics[cur].pic_order_cnt
            nneg == rps.num_negative_pics
            npos == rps.num_positive_pics
            neg(k) == DecodedPoc(rps.delta_poc_s0_minus1, c, -1, k)
            pos(k) == DecodedPoc(rps.delta_poc_s1_minus1, c, 1, k)
            refpocs == { hpics[i].pic_order_cnt :
                           i \in Range(pics[cur].refs[1]) \cup Range(pics[cur].refs[2]) }
        IN  /\ nneg + npos = Cardinality(RpsPictures)
            /\ { neg(k) : k \in 1..nneg } \cup { pos(k) : k \in 1..npos } = RpsPocs
            /\ Cardinality({ neg(k) : k \in 1..nneg } \cup { pos(k) : k \in 1..npos })
                  = nneg + npos
            /\ \A k \in 1..nneg :
                 rps.used_by_curr_pic_s0_flag[k] = IF neg(k) \in refpocs THEN 1 ELSE 0
            /\ \A k \in 1..npos :
                 rps.used_by_curr_pic_s1_flag[k] = IF pos(k) \in refpocs THEN 1 ELSE 0

\* C8 witness: a B picture with a reference on each side and an unreferenced
\* picture in its DPB snapshot.
C8_Witness ==
    /\ H265RpsBuilt
    /\ pics[cur].type = FF_HW_PICTURE_TYPE_B
    /\ Cardinality(RpsPictures) = 3
    /\ sh.short_term_ref_pic_set.num_negative_pics >= 1
    /\ sh.short_term_ref_pic_set.num_positive_pics >= 1
    /\ \E k \in 1..2 : \/ /\ k <= sh.short_term_ref_pic_set.num_negative_pics
                          /\ sh.short_term_ref_pic_set.used_by_curr_pic_s0_flag[k] = 0
                       \/ /\ k <= sh.short_term_ref_pic_set.num_positive_pics
                          /\ sh.short_term_ref_pic_set.used_by_curr_pic_s1_flag[k] = 0

\* the partition sizes: the entries below and above the current POC
RpsPartition ==
    LET rps == sh.short_term_ref_pic_set
        c   == hpics[cur].pic_order_cnt
    IN  /\ rps.num_negative_pics = Cardinality({ q \in RpsPocs : q < c })
        /\ rps.num_positive_pics = Cardinality({ q \in RpsPocs : q > c })

\* C9 as stated: every entry of the negative partition is coded as
\* current POC - entry POC - 1, nearest first, and every entry of the
\* positive partition as entry POC - current POC - 1, ascending.
C9_AbsoluteDeltas ==
    H265RpsBuilt =>
        LET rps == sh.short_term_ref_pic_set
            c   == hpics[cur].pic_order_cnt
        IN  /\ RpsPartition
            /\ \A k \in 1..rps.num_negative_pics :
                 rps.delta_poc_s0_minus1[k] = c - NthFrom(RpsPocs, c, -1, k) - 1
            /\ \A k \in 1..rps.num_positive_pics :
                 rps.delta_poc_s1_minus1[k] = NthFrom(RpsPocs, c, 1, k) - c - 1

\* C9 amended: the entries are partitioned at the first POC above the
\* current one; the nearest entry of each partition is coded against the
\* current POC and every later entry against the entry coded before it:
\* (previous POC - entry POC - 1) going down the negative partition,
\* (entry POC - previous POC - 1) going up the positive one.
C9_DifferentialDeltas ==
    H265RpsBuilt =>
        LET rps == sh.short_term_ref_pic_set
            c   == hpics[cur].pic_order_cnt
            before(dir, k) == IF k = 1 THEN c ELSE NthFrom(RpsPocs, c, dir, k - 1)
        IN  /\ RpsPartition
            /\ \A k \in 1..rps.num_negative_pics :
                 rps.delta_poc_s0_minus1[k] =
                     before(-1, k) - NthFrom(RpsPocs, c, -1, k) - 1
            /\ \A k \in 1..rps.num_positive_pics :
                 rps.delta_poc_s1_minus1[k] =
                     NthFrom(RpsPocs, c, 1, k) - before(1, k) - 1

\* C9 witness: two entries in the negative partition, the farther one
\* adjacent to the nearer one, so that its coded value is 0.
C9_Witness ==
    /\ H265RpsBuilt
    /\ sh.short_term_ref_pic_set.num_negative_pics = 2
    /\ sh.short_term_ref_pic_set.delta_poc_s0_minus1[2] = 0
    /\ Cardinality({ q \in RpsPocs : q < hpics[cur].pic_order_cnt }) = 2

\* C10: for every non-IDR picture each entry of the negative partition, in
\* signalled order, lies strictly farther from the current POC than the one
\* before it, the same holds for the positive partition, and no two entries
\* of the set denote the same POC.
C10_StrictlyFarther ==
    H265RpsBuilt =>
        LET rps  == sh.short_term_ref_pic_set
            c    == hpics[cur].pic_order_cnt
            nneg == rps.num_negative_pics
            npos == rps.num_positive_pics
            neg(k) == DecodedPoc(rps.delta_poc_s0_minus1, c, -1, k)
            pos(k) == DecodedPoc(rps.delta_poc_s1_minus1, c, 1, k)
        IN  /\ \A k \in 1..nneg : c - neg(k) > c - neg(k - 1)
            /\ \A k \in 1..npos : pos(k) - c > pos(k - 1) - c
            /\ \A k \in 1..nneg : rps.delta_poc_s0_minus1[k] >= 0
            /\ \A k \in 1..npos : rps.delta_poc_s1_minus1[k] >= 0
            /\ \A j \in 1..nneg : \A k \in 1..nneg : j # k => neg(j) # neg(k)
            /\ \A j \in 1..npos : \A k \in 1..npos : j # k => pos(j) # pos(k)
            /\ \A j \in 1..nneg : \A k \in 1..npos : neg(j) # pos(k)

\* C10 witness: two entries in the positive partition, collected with the
\* farther one first.
C10_Witness ==
    /\ H265RpsBuilt
    /\ sh.short_term_ref_pic_set.num_positive_pics = 2
    /\ LET collected == H265RpsCollect(pics[cur])
       IN  \E i \in 1..Len(collected) : \E j \in 1..Len(collected) :
             /\ i < j
             /\ collected[i].poc > collected[j].poc
             /\ collected[j].poc > hpics[cur].pic_order_cnt


\* the pictures of the predecessor's DPB snapshot missing from the current
\* picture's
DiscardedPictures == Range(pics[pics[cur].prev].dpb) \ Range(pics[cur].dpb)

\* the marking the slice header holds is the one the discarded set calls
\* for: flag 0 when the set is empty, otherwise one operation 1 per
\* discarded picture with difference_of_pic_nums_minus1 =
\* frame_num(current) - frame_num(discarded) - 1, then operation 0
MarkingMatchesDiscarded ==
    LET k == Cardinality(DiscardedPictures)
    IN  IF k = 0 THEN sh.adaptive_ref_pic_marking_mode_flag = 0
        ELSE /\ sh.adaptive_ref_pic_marking_mode_flag = 1
             /\ \A i \in 1..k : sh.mmco[i].memory_management_control_operation = 1
             /\ { sh.mmco[i].difference_of_pic_nums_minus1 : i \in 1..k }
                  = { hpics[cur].frame_num - hpics[d].frame_num - 1 :
                        d \in DiscardedPictures }
             /\ Cardinality({ sh.mmco[i].difference_of_pic_nums_minus1 : i \in 1..k }) = k
             /\ sh.mmco[k + 1].memory_management_control_operation = 0

\* C11 as stated: for every non-IDR picture the slice header's marking is
\* the one the discarded set calls for.
C11_MarkingEveryNonIdr ==
    (variant = "h264" /\ pc = "slice" /\ pics[cur].type # FF_HW_PICTURE_TYPE_IDR)
        => MarkingMatchesDiscarded

\* C11 amended: for every non-IDR picture that is a reference, the discarded
\* set is the pictures of the previous DPB snapshot absent from the current
\* one; when it is empty the adaptive marking flag is 0, otherwise the
\* header holds one operation 1 per discarded picture with
\* difference_of_pic_nums_minus1 = frame_num(current) - frame_num(discarded)
\* - 1, then one operation 0.
C11_MarkingReferencePictures ==
    ( /\ variant = "h264" /\ pc = "slice"
      /\ pics[cur].type # FF_HW_PICTURE_TYPE_IDR
      /\ pics[cur].is_reference # 0 )
        => MarkingMatchesDiscarded

\* C11 witness: a reference picture that drops two pictures of the previous
\* DPB snapshot and keeps one.
C11_Witness ==
    /\ variant = "h264" /\ pc = "slice"
    /\ pics[cur].type = FF_HW_PICTURE_TYPE_P
    /\ Cardinality(DiscardedPictures) = 2
    /\ Cardinality(Range(pics[cur].dpb)) = 2
    /\ sh.mmco[3].memory_management_control_operation = 0



\* ------------------------------------------------------------ writer claims
\* a writer returned: out is its record
WriterReturned ==
    out.op \in {"write_sequence_header", "write_slice_header", "write_extra_header"}

\* C12: for both variants and any sequence of write_sequence_header,
\* write_slice_header and write_extra_header calls, the pending access-unit
\* list is empty after every call returns (success, nothing pending,
\* capacity error, or a failure while appending part-way); the fragment a
\* call serializes holds only the units that call appended.
C12_PendingEmpty ==
    /\ current_access_unit = << >>
    /\ WriterReturned => /\ Len(out.au) = out.appended
                         /\ out.data \in { << >>, out.au }

\* a call failed after it had appended a unit, and the list is empty again
C12_Witness ==
    /\ WriterReturned
    /\ out.err = ENOMEM
    /\ out.appended >= 1
    /\ current_access_unit = << >>

\* the bit length write_access_unit requires for the serialized fragment
RequiredBits == 8 * out.data_size - out.data_bit_padding

\* C13: write_access_unit, both variants, once the fragment is serialized:
\* with required = 8 * byte length - trailing padding bits, the call returns
\* ENOSPC exactly when the capacity *data_len is less than required; then no
\* byte is written and *data_len is unchanged; otherwise it succeeds, copies
\* the bytes and sets *data_len to required.
C13_CapacityError ==
    (WriterReturned /\ out.serialized) =>
        /\ (out.err = ENOSPC) <=> (out.capacity < RequiredBits)
        /\ (out.err = ENOSPC) => (out.data = << >> /\ out.data_len = out.capacity)
        /\ (out.capacity >= RequiredBits) =>
               /\ out.err = OK
               /\ out.data = out.au
               /\ Len(out.data) * UnitBytes = out.data_size
               /\ out.data_len = RequiredBits

\* a buffer of exactly the required size is accepted
C13_Witness ==
    /\ WriterReturned
    /\ out.serialized
    /\ out.capacity = RequiredBits
    /\ out.err = OK
    /\ out.data_len = out.capacity

\* C14: a capacity error is recoverable by retrying: after a writer fails
\* with ENOSPC, the same operation called again for the same picture with a
\* large-enough buffer (and no CBS failure) succeeds and serializes the units
\* the first call serialized, the delimiter and every due message included.
C14_RetryRecovers ==
    [][ ( /\ WriterReturned
          /\ out.err = ENOSPC
          /\ out'.op = out.op
          /\ cur' = cur
          /\ out'.capacity = MaxCapacity
          /\ out'.err \notin {ENOMEM, EINVAL} )
        => (out'.err = OK /\ out'.data = out.au) ]_vars

\* init_picture_params has just scheduled the metadata of the current picture
PictureScheduled(v) == variant = v /\ pc = "picture" /\ out = NoOutput

\* C15: H.264 metadata scheduling, for every picture: the identifier is due
\* only on the picture with encode order 0, and only if enabled; picture
\* timing is due on every picture when timing is enabled and the rate
\* control mode respects HRD, and never when it does not; the buffering
\* period goes with it exactly on IDR pictures; the recovery point is due
\* exactly on non-IDR I pictures when enabled.
C15_H264Scheduling ==
    PictureScheduled("h264") =>
        LET p == pics[cur] IN
        /\ (SEI_IDENTIFIER \in sei_needed)
               <=> (SEI_IDENTIFIER \in options.sei /\ p.encode_order = 0)
        /\ (SEI_TIMING \in sei_needed)
               <=> (SEI_TIMING \in options.sei /\ options.hrd # 0)
        /\ (buffering_period \in Range(H264ExtraUnits(p)))
               <=> (SEI_TIMING \in sei_needed /\ p.type = FF_HW_PICTURE_TYPE_IDR)
        /\ (pic_timing \in Range(H264ExtraUnits(p))) <=> (SEI_TIMING \in sei_needed)
        /\ (SEI_RECOVERY_POINT \in sei_needed)
               <=> (SEI_RECOVERY_POINT \in options.sei /\ p.type = FF_HW_PICTURE_TYPE_I)

\* an I picture after the first with timing and recovery point due, no identifier
C15_Witness ==
    /\ PictureScheduled("h264")
    /\ pics[cur].type = FF_HW_PICTURE_TYPE_I
    /\ SEI_IDENTIFIER \in options.sei
    /\ sei_needed = {SEI_TIMING, SEI_RECOVERY_POINT}


\* C17: H.265 HDR metadata scheduling: the mastering display message is due
\* if and only if it is enabled, the picture type is I or IDR and the input
\* carries mastering display side data with both primaries and luminance; the
\* content light level message is due if and only if it is enabled, the
\* picture type is I or IDR and the input carries content light level side
\* data; neither is ever due on a P or B picture.
C17_H265HdrScheduling ==
    PictureScheduled("h265") =>
        LET p == pics[cur]
            intra == p.type \in {FF_HW_PICTURE_TYPE_I, FF_HW_PICTURE_TYPE_IDR}
        IN
        /\ (SEI_MASTERING_DISPLAY \in sei_needed)
               <=> (/\ SEI_MASTERING_DISPLAY \in options.sei
                    /\ intra
                    /\ p.input_image.mastering = "full")
        /\ (SEI_CONTENT_LIGHT_LEVEL \in sei_needed)
               <=> (/\ SEI_CONTENT_LIGHT_LEVEL \in options.sei
                    /\ intra
                    /\ p.input_image.light = 1)
        /\ p.type \in {FF_HW_PICTURE_TYPE_P, FF_HW_PICTURE_TYPE_B}
               => sei_needed \cap {SEI_MASTERING_DISPLAY, SEI_CONTENT_LIGHT_LEVEL} = {}

\* a non-IDR I picture with both HDR messages due
C17_Witness ==
    /\ PictureScheduled("h265")
    /\ pics[cur].type = FF_HW_PICTURE_TYPE_I
    /\ pics[cur].input_image.mastering = "full"
    /\ {SEI_MASTERING_DISPLAY, SEI_CONTENT_LIGHT_LEVEL} \subseteq sei_needed


\* the fixed order of the metadata messages
MessageOrder ==
    <<identifier, buffering_period, pic_timing, recovery_point,
      mastering_display, content_light_level, a53_cc>>

\* the messages due at the last write_extra_header call, from the bits the
\* call found set and the type of the current picture
DueMessages ==
    (IF SEI_IDENTIFIER \in out.sei_due THEN {identifier} ELSE {})
    \cup (IF SEI_TIMING \in out.sei_due THEN {pic_timing} ELSE {})
    \cup (IF SEI_TIMING \in out.sei_due /\ pics[cur].type = FF_HW_PICTURE_TYPE_IDR
          THEN {buffering_period} ELSE {})
    \cup (IF SEI_RECOVERY_POINT \in out.sei_due THEN {recovery_point} ELSE {})
    \cup (IF SEI_MASTERING_DISPLAY \in out.sei_due THEN {mastering_display} ELSE {})
    \cup (IF SEI_CONTENT_LIGHT_LEVEL \in out.sei_due THEN {content_light_level} ELSE {})
    \cup (IF SEI_A53_CC \in out.sei_due THEN {a53_cc} ELSE {})

\* the due messages in the fixed order
DueInOrder ==
    LET IsDue(m) == m \in DueMessages IN SelectSeq(MessageOrder, IsDue)

\* the last call wrote a metadata buffer
MetadataBuffer ==
    /\ out.op = "write_extra_header"
    /\ out.err = OK
    /\ out.type = VAEncPackedHeaderRawData

\* the messages of the written buffer, in the order they appear
BufferMessages ==
    LET IsMessage(u) == u \in Range(MessageOrder) IN SelectSeq(out.data, IsMessage)

\* The part of C16 that holds for both variants: the messages of a metadata
\* buffer are the due ones in the fixed order.
MessagesInOrder == MetadataBuffer => BufferMessages = DueInOrder

\* C16: in the metadata buffer of any picture the due messages appear in the
\* fixed order identifier, buffering period, picture timing, recovery point,
\* mastering display, content light level, captions, for every combination
\* of due messages, and the access-unit delimiter the call emits when one is
\* needed precedes all of them: the buffer is the delimiter, if needed,
\* followed by the due messages and nothing else.
C16_MetadataOrder ==
    MetadataBuffer =>
        out.data = (IF out.aud_due # 0 THEN <<AUD>> ELSE << >>) \o DueInOrder


\* the buffers written for the current picture before the last call
PriorBuffers ==
    IF WriterReturned /\ out.err = OK THEN SubSeq(written, 1, Len(written) - 1)
    ELSE written

\* the buffers among bufs that write_extra_header delivered with the type t
ExtraBuffers(bufs, t) ==
    { i \in 1..Len(bufs) : bufs[i].op = "write_extra_header" /\ bufs[i].type = t }

\* the legacy workaround padding was due at the last call
PaddingDue == variant = "h264" /\ options.CONFIG_VAAPI_1 = 0 /\ out.cbr_due # 0

\* write_extra_header returns AVERROR_EOF, with no output, exactly when no
\* message and no legacy padding is due; one picture gets at most one
\* metadata buffer
NothingPendingSignal ==
    /\ (out.err = AVERROR_EOF) <=> (out.sei_due = {} /\ ~PaddingDue)
    /\ (out.err = AVERROR_EOF) => (out.data = << >> /\ out.data_len = out.capacity)
    /\ Cardinality(ExtraBuffers(written, VAEncPackedHeaderRawData)) <= 1

\* a write_extra_header call delivered something for the picture before the last call
DeliveredBefore ==
    ExtraBuffers(PriorBuffers, VAEncPackedHeaderRawData)
        \cup ExtraBuffers(PriorBuffers, VAEncPackedHeaderH264_SEI) # {}

AudPositions ==
    { <<i, j>> \in (1..Len(written)) \X (1..(2 + Len(MessageOrder))) :
        j <= Len(written[i].data) /\ written[i].data[j] = AUD }

C20_LevelSelection ==
    (seq.done /\ avctx.chroma_supported) =>
        /\ seq.err = OK
        /\ seq.vseq_level_idc = seq.sps_level_idc
        /\ variant = "h265" =>
             /\ seq.vps_general_level_idc = seq.sps_level_idc
             /\ seq.vps_general_tier_flag = seq.sps_general_tier_flag
             /\ seq.vseq_general_tier_flag = seq.sps_general_tier_flag
        /\ avctx.level # AV_LEVEL_UNKNOWN => seq.sps_level_idc = avctx.level
        /\ (avctx.level = AV_LEVEL_UNKNOWN /\ avctx.guess.found)
             => seq.sps_level_idc = avctx.guess.level_idc
        /\ (avctx.level = AV_LEVEL_UNKNOWN /\ ~avctx.guess.found) =>
             IF variant = "h264" THEN seq.sps_level_idc = 62
             ELSE seq.sps_level_idc = 255 /\ seq.sps_general_tier_flag = 1

\* an H.265 main tier session for which no level is found
C20_Witness ==
    /\ variant = "h265"
    /\ pc = "idle"
    /\ seq.done
    /\ avctx.level = AV_LEVEL_UNKNOWN
    /\ ~avctx.guess.found
    /\ avctx.tier = 0
    /\ seq.vseq_level_idc = 255
    /\ seq.vseq_general_tier_flag = 1

\* the POC scale of the session: 2 for H.264 without B-frames, otherwise 1
PocScale == IF variant = "h264" /\ max_b_depth = 0 THEN 2 ELSE 1

\* C21: in both variants an IDR picture has POC 0, and every other picture's
\* POC differs from its predecessor's (in encode order) by the session's
\* scale times the difference of their display orders; so every POC is the
\* scale times the distance, in display order, from the most recent IDR in
\* encode order.  Among the live pictures that follow the same IDR, POCs
\* are ordered like display orders.
C21_PictureOrderCount ==
    [][ (cur' # cur /\ pc' = "picture") =>
          LET p == pics'[cur']
              h == hpics'[cur']
          IN  /\ IF p.type = FF_HW_PICTURE_TYPE_IDR
                 THEN h.pic_order_cnt = 0
                 ELSE h.pic_order_cnt - hpics[cur].pic_order_cnt
                        = PocScale * (p.display_order - pics[cur].display_order)
              /\ \A i, j \in DOMAIN pics' :
                   (/\ hpics'[i].last_idr_frame = hpics'[j].last_idr_frame
                    /\ pics'[i].display_order < pics'[j].display_order)
                   => hpics'[i].pic_order_cnt < hpics'[j].pic_order_cnt ]_vars

\* a picture displayed out of encode order in the second IDR period of an
\* H.264 session without B-frames
C21_Witness ==
    /\ variant = "h264" /\ max_b_depth = 0
    /\ pc = "picture"
    /\ cur # NoPic
    /\ pics[cur].type # FF_HW_PICTURE_TYPE_IDR
    /\ hpics[cur].last_idr_frame > 0
    /\ pics[cur].display_order # pics[cur].encode_order
    /\ hpics[cur].pic_order_cnt = 2 * (pics[cur].display_order - hpics[cur].last_idr_frame)

\* C22: H.264: once the slice parameters of a picture are built, the
\* frame_num of the backend picture parameter record (vpic->frame_num and
\* vpic->CurrPic.frame_idx) equals the frame_num of the slice header, also
\* for a picture that follows 2^(4 + log2_max_frame_num_minus4) or more
\* reference pictures since the last IDR picture.
C22_BackendFrameNum ==
    (variant = "h264" /\ pc = "slice") =>
        /\ vpic.frame_num = sh.frame_num
        /\ vpic.CurrPic.frame_idx = sh.frame_num

\* the metadata messages due for picture p under the session's configuration
FreshDue(p) ==
    LET intra == p.type \in {FF_HW_PICTURE_TYPE_I, FF_HW_PICTURE_TYPE_IDR}
        on(b, c) == IF b \in sei /\ c THEN {b} ELSE {}
    IN  on(SEI_A53_CC, p.input_image.a53 = 1)
        \cup (IF variant = "h264"
              THEN on(SEI_IDENTIFIER, p.encode_order = 0)
                   \cup on(SEI_TIMING, TRUE)
                   \cup on(SEI_RECOVERY_POINT, p.type = FF_HW_PICTURE_TYPE_I)
              ELSE on(SEI_MASTERING_DISPLAY, intra /\ p.input_image.mastering = "full")
                   \cup on(SEI_CONTENT_LIGHT_LEVEL, intra /\ p.input_image.light = 1))

\* C23: in both variants the set of metadata messages init_picture_params
\* leaves due is a function of the picture and the configuration alone,
\* whatever was still pending from earlier pictures (never written, or
\* written by a call that failed); the caption message is due exactly when
\* captions are enabled and the picture's own input carries caption bytes.
C23_FreshEveryPicture ==
    (pc = "picture" /\ out = NoOutput) =>
        /\ sei_needed = FreshDue(pics[cur])
        /\ (SEI_A53_CC \in sei_needed)
               <=> (SEI_A53_CC \in options.sei /\ pics[cur].input_image.a53 = 1)

\* a picture after the first, without captions, in a session with the
\* identifier and captions enabled: the identifier of the first picture and
\* the captions of earlier pictures are not due
C23_Witness ==
    /\ pc = "picture" /\ out = NoOutput
    /\ {SEI_IDENTIFIER, SEI_A53_CC} \subseteq sei
    /\ pics[cur].encode_order >= 2
    /\ pics[cur].input_image.a53 = 0
    /\ sei_needed \cap {SEI_IDENTIFIER, SEI_A53_CC} = {}

\* the pictures whose frame_num the H.264 slice parameter construction
\* compares with the current picture's: the discard candidates of a non-IDR
\* reference picture and the default-list candidates of a P or B picture
H264FrameNumCandidates ==
    LET p == pics[cur]
        old == Range(pics[p.prev].dpb)
    IN  (IF p.is_reference = 1 /\ p.type # FF_HW_PICTURE_TYPE_IDR
         THEN old \ Range(p.dpb) ELSE {})
        \cup (IF p.type \in {FF_HW_PICTURE_TYPE_P, FF_HW_PICTURE_TYPE_B} THEN old ELSE {})

\* every picture of the previous picture's DPB snapshot is a reference
\* picture encoded before the current picture, with no IDR picture since
DpbInContract ==
    \A i \in Range(pics[pics[cur].prev].dpb) :
        /\ pics[i].is_reference = 1
        /\ pics[i].encode_order < pics[cur].encode_order
        /\ hpics[i].last_idr_frame = hpics[cur].last_idr_frame

\* the assertions on the frame_num of discard and default-list candidates
FrameNumAsserts ==
    { "h264:935 old->frame_num < hpic->frame_num",
      "h264:785 hn->frame_num < hp->frame_num",
      "h264:790 hc->frame_num != hn->frame_num" }

\* C24: H.264, for a non-IDR current picture.  When every picture of the
\* previous picture's DPB snapshot is a reference picture encoded before it
\* with no IDR picture in between, the DPB pictures' frame_nums are pairwise
\* distinct and less than the current picture's, and none of the assertions
\* on candidates' frame_num fires.  Whenever a slice header is produced,
\* every candidate's frame_num is less than the current picture's: a
\* candidate with a frame_num not less aborts the computation.
C24_FrameNumCandidates ==
    (variant = "h264" /\ cur # NoPic /\ pics[cur].type # FF_HW_PICTURE_TYPE_IDR) =>
        LET old == Range(pics[pics[cur].prev].dpb) IN
        /\ DpbInContract =>
             /\ \A i \in old : hpics[i].frame_num < hpics[cur].frame_num
             /\ \A i, j \in old : i # j => hpics[i].frame_num # hpics[j].frame_num
             /\ abort_at \notin FrameNumAsserts
        /\ pc = "slice" =>
             \A i \in H264FrameNumCandidates : hpics[i].frame_num < hpics[cur].frame_num

\* a P picture whose slice header is built from a DPB of two pictures, one
\* of them discarded
C24_Witness ==
    /\ variant = "h264" /\ pc = "slice"
    /\ pics[cur].type = FF_HW_PICTURE_TYPE_P
    /\ DpbInContract
    /\ Cardinality(Range(pics[pics[cur].prev].dpb)) = 2
    /\ Range(pics[pics[cur].prev].dpb) \ Range(pics[cur].dpb) # {}

\* a candidate outside the contract ended the run
C24_WitnessAbort ==
    /\ variant = "h264" /\ pc = "aborted"
    /\ abort_at \in FrameNumAsserts
    /\ ~DpbInContract

\* the H.264 slice header of the current picture carries modification
\* commands for list k (1 or 2)
RplmEmitted(k) ==
    /\ variant = "h264" /\ pc = "slice"
    /\ IF k = 1
       THEN /\ pics[cur].type \in {FF_HW_PICTURE_TYPE_P, FF_HW_PICTURE_TYPE_B}
            /\ sh.ref_pic_list_modification_flag_l0 = 1
       ELSE /\ pics[cur].type = FF_HW_PICTURE_TYPE_B
            /\ sh.ref_pic_list_modification_flag_l1 = 1

\* the frame_num of the i-th reference of list k of the current picture
RefFrameNum(k, i) == hpics[pics[cur].refs[k][i]].frame_num

\* the commands stored for list k
RplmCommands(k) == IF k = 1 THEN sh.rplm_l0 ELSE sh.rplm_l1

\* list k names each picture once, and only reference pictures of the
\* current IDR period encoded before the current picture
ListInContract(k) ==
    LET refs == pics[cur].refs[k] IN
    /\ \A i, j \in 1..Len(refs) : i # j => refs[i] # refs[j]
    /\ \A i \in 1..Len(refs) :
         /\ pics[refs[i]].is_reference = 1
         /\ pics[refs[i]].encode_order < pics[cur].encode_order
         /\ hpics[refs[i]].last_idr_frame = hpics[cur].last_idr_frame

C25_WitnessCurrent ==
    /\ RplmEmitted(1)
    /\ Len(pics[cur].refs[1]) >= 2
    /\ RefFrameNum(1, 2) = hpics[cur].frame_num

\* the POCs collected for the reference picture set of the current picture:
\* the references of list 0, then of list 1, then the DPB pictures that are
\* neither the current picture nor one of its references
CollectedPocs ==
    LET p == pics[cur]
        unused(id) == id # cur /\ id \notin Range(p.refs[1]) \cup Range(p.refs[2])
        ids == p.refs[1] \o p.refs[2] \o SelectSeq(p.dpb, unused)
    IN  [ i \in 1..Len(ids) |-> hpics[ids[i]].pic_order_cnt ]

\* two collected entries have the same POC, or one has the current POC
CollectedClash ==
    \/ \E i, j \in 1..Len(CollectedPocs) : i # j /\ CollectedPocs[i] = CollectedPocs[j]
    \/ \E i \in 1..Len(CollectedPocs) : CollectedPocs[i] = hpics[cur].pic_order_cnt

RpsAsserts ==
    { "h265:1059 rps_poc[j] != rps_poc[j - 1]",
      "h265:1074 rps_poc[i] != hpic->pic_order_cnt" }

\* C26: H.265, when the slice parameters of a non-IDR picture are built: if
\* two entries collected for its reference picture set have the same POC,
\* wherever they sit, or an entry has the current picture's POC, the
\* construction ends in a fatal assertion; a reference picture set that is
\* produced has one entry per collected picture and only positive POC
\* steps, so no duplicate and no entry at the current POC.
C26_RpsClashIsFatal ==
    [][ (/\ variant = "h265" /\ pc = "picture"
         /\ pics[cur].type # FF_HW_PICTURE_TYPE_IDR)
        => /\ CollectedClash => (pc' = "aborted" /\ abort_at' \in RpsAsserts /\ sh' = sh)
           /\ pc' = "slice" =>
                LET rps == sh'.short_term_ref_pic_set IN
                /\ rps.num_negative_pics + rps.num_positive_pics = Len(CollectedPocs)
                /\ \A k \in 1..rps.num_negative_pics : rps.delta_poc_s0_minus1[k] >= 0
                /\ \A k \in 1..rps.num_positive_pics : rps.delta_poc_s1_minus1[k] >= 0 ]_vars

\* the run ended on a duplicate POC whose two entries are not neighbours in
\* the collected list
C26_Witness ==
    /\ variant = "h265" /\ pc = "aborted"
    /\ abort_at = "h265:1059 rps_poc[j] != rps_poc[j - 1]"
    /\ Len(CollectedPocs) >= 3
    /\ \A i \in 1..(Len(CollectedPocs) - 1) : CollectedPocs[i] # CollectedPocs[i + 1]

\* the run ended on an entry with the current picture's POC
C26_WitnessCurrent ==
    /\ variant = "h265" /\ pc = "aborted"
    /\ abort_at = "h265:1074 rps_poc[i] != hpic->pic_order_cnt"

\* the primary picture type of a picture of the type t
PrimaryPicType(t) ==
    CASE t = FF_HW_PICTURE_TYPE_P -> 1
      [] t = FF_HW_PICTURE_TYPE_B -> 2
      [] OTHER                    -> 0

\* the delimiter record of the current picture
CurrentDelimiter ==
    IF variant = "h264"
    THEN [ nal_unit_type |-> "H264_NAL_AUD",
           primary_pic_type |-> PrimaryPicType(pics[cur].type) ]
    ELSE [ nal_unit_type |-> "HEVC_NAL_AUD", nuh_layer_id |-> 0,
           nuh_temporal_id_plus1 |-> 1, pic_type |-> PrimaryPicType(pics[cur].type) ]

\* the last writer call found a delimiter due and appended its first unit
DelimiterPrepended == WriterReturned /\ out.aud_due # 0 /\ out.appended >= 1

\* C27: both variants, all three writers: whenever a writer prepends an
\* access-unit delimiter, the unit it appends is the delimiter record that
\* init_picture_params built for the current picture (type AUD with that
\* picture's primary picture type) and no other object, also when the
\* metadata writer is the first writer called for the picture.
C27_DelimiterRecord ==
    DelimiterPrepended => UnitContent(out.au[1]) = CurrentDelimiter

\* The part of C27 that holds: the H.264 writers and the H.265 sequence
\* and slice header writers append the record of the current picture.
DelimiterRecordElsewhere ==
    (DelimiterPrepended /\ ~(variant = "h265" /\ out.op = "write_extra_header"))
        => UnitContent(out.au[1]) = CurrentDelimiter

\* the H.264 metadata writer prepended the delimiter of a B picture
C27_WitnessH264 ==
    /\ DelimiterPrepended /\ variant = "h264" /\ out.op = "write_extra_header"
    /\ pics[cur].type = FF_HW_PICTURE_TYPE_B
    /\ written = << >> \/ (Len(written) = 1 /\ out.err = OK)

\* the current picture is an H.264 B picture whose slice parameters are
\* built and whose previous DPB snapshot holds fewer than two pictures
ShortDpbB ==
    /\ variant = "h264" /\ pc = "slice"
    /\ pics[cur].type = FF_HW_PICTURE_TYPE_B
    /\ dflt.n < 2

\* C28: H.264, for a B picture whose previous DPB snapshot holds n < 2
\* pictures, the first n positions of both default lists returned hold
\* only pictures of that snapshot: the degenerate-list correction moves no
\* entry from a position >= n into list 1.
C28_ShortDpbLists ==
    ShortDpbB =>
        LET prev_dpb == Range(pics[pics[cur].prev].dpb) IN
        \A i \in 1..dflt.n : dflt.rpl0[i] \in prev_dpb /\ dflt.rpl1[i] \in prev_dpb

\* The part of C28 that holds: list 0 is not touched by the correction.
ShortDpbList0 ==
    ShortDpbB => \A i \in 1..dflt.n : dflt.rpl0[i] \in Range(pics[pics[cur].prev].dpb)

\* the two backend lists of the slice record of the current picture
BackendList0 == IF variant = "h264" THEN vslice.RefPicList0 ELSE vslice.ref_pic_list0
BackendList1 == IF variant = "h264" THEN vslice.RefPicList1 ELSE vslice.ref_pic_list1

\* the slice record of a B picture with references in both lists is built
BothListsB ==
    /\ pc = "slice"
    /\ pics[cur].type = FF_HW_PICTURE_TYPE_B
    /\ nb_refs(pics[cur], 0) >= 1 /\ nb_refs(pics[cur], 1) >= 1

\* every backend entry after the first is marked invalid
BackendTailInvalid ==
    /\ \A i \in 2..Len(BackendList0) : BackendList0[i].picture_id = "VA_INVALID_ID"
    /\ \A i \in 2..Len(BackendList1) : BackendList1[i].picture_id = "VA_INVALID_ID"

\* C29: both variants, for every B picture with nb_refs[0] >= 1 and
\* nb_refs[1] >= 1 (nb_refs[0] > 1 included): the first list-0 entry of the
\* backend slice record identifies refs[0][0], the first list-1 entry
\* identifies refs[1][0], and every other entry of both lists is invalid.
C29_BackendFirstEntries ==
    BothListsB =>
        /\ BackendList0[1].picture_id = pics[cur].refs[1][1]
        /\ BackendList1[1].picture_id = pics[cur].refs[2][1]
        /\ BackendTailInvalid

\* The part of C29 that holds: with exactly one list-0 reference the first
\* entries are refs[0][0] and refs[1][0]; in every case the first list-0
\* entry is refs[0][0] and the other entries are invalid.
BackendFirstEntriesSingle ==
    BothListsB =>
        /\ BackendList0[1].picture_id = pics[cur].refs[1][1]
        /\ nb_refs(pics[cur], 0) = 1 => BackendList1[1].picture_id = pics[cur].refs[2][1]
        /\ BackendTailInvalid

\* The pictures visited by the walk from picture id along the first list-1
\* references, at most fuel of them: it stops at a picture of type I and at
\* a picture without list-1 reference.
RECURSIVE IrapWalk(_, _)
IrapWalk(id, fuel) ==
    IF fuel = 0 THEN << >>
    ELSE IF pics[id].type = FF_HW_PICTURE_TYPE_I \/ Len(pics[id].refs[2]) = 0
    THEN <<id>>
    ELSE <<id>> \o IrapWalk(pics[id].refs[2][1], fuel - 1)

\* the unit type of picture id as the walk w decides it
NalUnitByWalk(id, w) ==
    LET p    == pics[id]
        rasl == pics[w[Len(w)]].type = FF_HW_PICTURE_TYPE_I
    IN  CASE p.type = FF_HW_PICTURE_TYPE_IDR -> HEVC_NAL_IDR_W_RADL
          [] p.type = FF_HW_PICTURE_TYPE_I   -> HEVC_NAL_CRA_NUT
          [] p.type = FF_HW_PICTURE_TYPE_P   -> HEVC_NAL_TRAIL_R
          [] OTHER -> IF p.b_depth = max_b_depth
                      THEN (IF rasl THEN HEVC_NAL_RASL_N ELSE HEVC_NAL_TRAIL_N)
                      ELSE (IF rasl THEN HEVC_NAL_RASL_R ELSE HEVC_NAL_TRAIL_R)

\* C30: H.265, every reference having a smaller encode order than the
\* picture referring to it: the walk from a picture along the first list-1
\* references visits pictures of strictly decreasing encode order and ends
\* after at most encode_order + 1 pictures; a B picture gets a RASL type
\* exactly when the walk ends on a non-IDR I picture and a TRAIL type
\* otherwise, in the _N form exactly when its b_depth is max_b_depth; IDR,
\* I and P pictures get IDR_W_RADL, CRA and TRAIL_R.
C30_SliceNalUnit ==
    variant = "h265" =>
        \A id \in DOMAIN hpics :
            LET w == IrapWalk(id, id + 2) IN
            /\ Len(w) <= id + 1
            /\ \A i \in 1..(Len(w) - 1) : w[i + 1] < w[i]
            /\ hpics[id].slice_nal_unit = NalUnitByWalk(id, w)

\* a B picture whose walk passes another B picture before it ends on an I
\* picture
C30_Witness ==
    /\ variant = "h265" /\ cur # NoPic
    /\ pics[cur].type = FF_HW_PICTURE_TYPE_B
    /\ Len(IrapWalk(cur, cur + 2)) >= 3
    /\ hpics[cur].slice_nal_unit \in {HEVC_NAL_RASL_N, HEVC_NAL_RASL_R}
====
